---- MODULE Spec2Model ----
(***************************************************************************)
(* State-machine model of the yt-audio-api server (src/server.js): the     *)
(* caption fallback orchestrator POST /extract-youtube-content with its    *)
(* three caption adapters, the caption parsers, and the handlers that keep *)
(* temporary files (/extract-youtube-subtitles, /transcribe-audio,         *)
(* /extract-audio).  One step of the model is one run of a handler between *)
(* two awaits: Node runs such a segment without interleaving.              *)
(***************************************************************************)
EXTENDS Integers, Sequences, FiniteSets, TLC

\* ------------------------------------------------------------------------
\* Bounds of the model
\* ------------------------------------------------------------------------
\* number of concurrent requests in the temporary-file specification
NReq == 2
\* the clock Date.now() takes the values 0..MaxTick
MaxTick == 1
\* longest caption payload (elements, lines) the adapters deliver
MaxElems == 2

\* ------------------------------------------------------------------------
\* Characters and strings (a string is a sequence of one-character strings)
\* ------------------------------------------------------------------------
Lower == {"a","b","c","d","e","f","g","h","i","j","k","l","m",
          "n","o","p","q","r","s","t","u","v","w","x","y","z"}
Digit == {"0","1","2","3","4","5","6","7","8","9"}
\* \w plus '-' : the class [\w-] of isValidYouTubeUrl
WordDash == Lower \cup Digit \cup {"_", "-"}
\* \s : white space
Space == {" "}

L_http == <<"h","t","t","p",":","/","/">>
L_https == <<"h","t","t","p","s",":","/","/">>
L_www == <<"w","w","w",".">>
L_youtube == <<"y","o","u","t","u","b","e",".","c","o","m","/">>
L_youtu_be == <<"y","o","u","t","u",".","b","e","/">>
L_watch == <<"w","a","t","c","h","?","v","=">>
L_embed == <<"e","m","b","e","d","/">>
L_v == <<"v","/">>

\* lit occurs in s at position i
HasAt(s, i, lit) ==
  /\ i >= 1
  /\ i + Len(lit) - 1 <= Len(s)
  /\ \A k \in 1..Len(lit) : s[i + k - 1] = lit[k]

\* length of the longest run of characters of s, from position i, that
\* satisfy the class cls (a greedy [..]+ ; 0 when there is none)
RECURSIVE RunLen(_, _, _)
RunLen(s, i, cls) ==
  IF i <= Len(s) /\ s[i] \in cls THEN 1 + RunLen(s, i + 1, cls) ELSE 0

\* every character the model's strings are made of
AllChars == WordDash \cup Space \cup {":", "/", ".", "?", "=", "&", "\"", ";"}

\* ------------------------------------------------------------------------
\* Request urls.  A JSON body carries any JSON value as url: the model has
\* strings, one-element arrays of a string, and the absent url.
\* ------------------------------------------------------------------------
StrUrl(cs) == [type |-> "string", chars |-> cs]
ArrUrl(cs) == [type |-> "array", chars |-> cs]
NoUrl == [type |-> "missing", chars |-> <<>>]

\* String(url), the coercion RegExp.prototype.test applies to its argument
ToStr(url) == url.chars

\* !url of the handlers: undefined and the empty string are falsy
Falsy(url) == url.type = "missing" \/ (url.type = "string" /\ url.chars = <<>>)

\* the positions of s at which [\w-]+ of youtubeRegex can start: those that
\* follow a match of ^(https?:\/\/)?(www\.)?(youtube\.com\/(watch\?v=|embed\/|v\/)|youtu\.be\/)
AfterHost(s) ==
  LET afterScheme == {1} \cup {1 + Len(l) : l \in {l \in {L_http, L_https} : HasAt(s, 1, l)}}
      afterWww == afterScheme \cup {p + Len(L_www) : p \in {q \in afterScheme : HasAt(s, q, L_www)}}
  IN {p + Len(L_youtu_be) : p \in {q \in afterWww : HasAt(s, q, L_youtu_be)}}
     \cup
     UNION {
       {p + Len(L_youtube) + Len(l) :
          l \in {m \in {L_watch, L_embed, L_v} : HasAt(s, p + Len(L_youtube), m)}}
       : p \in {q \in afterWww : HasAt(s, q, L_youtube)} }

\* isValidYouTubeUrl without the path group (watch\?v=|embed\/|v\/)
isValidYouTubeUrl_HostOnly(url) ==
  LET s == ToStr(url)
      afterScheme == {1} \cup {1 + Len(l) : l \in {l \in {L_http, L_https} : HasAt(s, 1, l)}}
      afterWww == afterScheme \cup {p + Len(L_www) : p \in {q \in afterScheme : HasAt(s, q, L_www)}}
  IN \E p \in afterWww :
       \E l \in {L_youtube, L_youtu_be} :
         HasAt(s, p, l) /\ RunLen(s, p + Len(l), WordDash) >= 1

isValidYouTubeUrl(url) ==
  \E p \in AfterHost(ToStr(url)) : RunLen(ToStr(url), p, WordDash) >= 1

\* the number of characters of url that youtubeRegex matches (0 when it
\* does not match): the regex has no $, what follows is not looked at
MatchedLen(url) ==
  LET s == ToStr(url)
      ends == {p + RunLen(s, p, WordDash) - 1 : p \in {q \in AfterHost(s) : RunLen(s, q, WordDash) >= 1}}
  IN IF ends = {} THEN 0 ELSE CHOOSE e \in ends : \A d \in ends : d <= e

\* results of extractVideoId: an identifier, null, or a thrown TypeError
IdOf(cs) == [kind |-> "id", val |-> cs]
IdNull == [kind |-> "null", val |-> <<>>]
IdThrow == [kind |-> "throw", val |-> <<>>]

\* the class [^&\s] of the identifier capture
IdChars == AllChars \ ({"&"} \cup Space)

\* s.match(/(?:a1|a2|...)([^&\s]+)/): the capture of the leftmost match,
\* alternatives tried in order; <<>> when there is no match
RECURSIVE MatchFrom(_, _, _)
MatchFrom(s, i, alts) ==
  IF i > Len(s) THEN <<>>
  ELSE LET hits == {k \in 1..Len(alts) :
                      /\ HasAt(s, i, alts[k])
                      /\ RunLen(s, i + Len(alts[k]), IdChars) >= 1}
       IN IF hits # {}
          THEN LET k == CHOOSE h \in hits : \A g \in hits : h <= g
                   b == i + Len(alts[k])
               IN SubSeq(s, b, b + RunLen(s, b, IdChars) - 1)
          ELSE MatchFrom(s, i + 1, alts)

\* extractVideoId without its second pattern, youtube.com/v/
extractVideoId_NoVForm(url) ==
  IF url.type # "string" THEN IdThrow
  ELSE LET s == url.chars
           m1 == MatchFrom(s, 1, <<L_youtube \o L_watch, L_youtu_be, L_youtube \o L_embed>>)
       IN IF m1 # <<>> THEN IdOf(m1) ELSE IdNull

extractVideoId(url) ==
  IF url.type # "string" THEN IdThrow
  ELSE LET s == url.chars
           m1 == MatchFrom(s, 1, <<L_youtube \o L_watch, L_youtu_be, L_youtube \o L_embed>>)
           m2 == MatchFrom(s, 1, <<L_youtube \o L_v>>)
       IN IF m1 # <<>> THEN IdOf(m1)
          ELSE IF m2 # <<>> THEN IdOf(m2)
          ELSE IdNull

\* the validation at the head of POST /extract-youtube-content and of
\* POST /extract-youtube-subtitles: the error it answers with, "throw" when
\* url.match throws, "accepted" when the handler goes on
ValidateUrl(url) ==
  IF Falsy(url) THEN "URL is required"
  ELSE IF ~isValidYouTubeUrl(url) THEN "Invalid YouTube URL"
  ELSE IF extractVideoId(url).kind = "throw" THEN "throw"
  ELSE IF extractVideoId(url).kind = "null" THEN "Could not extract video ID from URL"
  ELSE "accepted"

\* the urls the requests of the model carry
Urls ==
  { NoUrl,
    StrUrl(<<>>),
    StrUrl(L_https \o L_www \o L_youtube \o L_watch \o <<"a","b">>),
    StrUrl(L_youtu_be \o <<"a","b">>),
    StrUrl(L_https \o L_youtube \o L_embed \o <<"a","b">>),
    StrUrl(L_http \o L_www \o L_youtube \o L_v \o <<"a","b">>),
    StrUrl(L_https \o L_www \o L_youtube \o <<"a","b">>),
    StrUrl(L_youtube \o L_watch \o <<"&">>),
    ArrUrl(L_https \o L_youtu_be \o <<"a","b">>) }

\* ------------------------------------------------------------------------
\* Caption payloads and the parsers.  Times are in milliseconds; the id
\* String(n) of a segment is modelled by the number n; the words field of a
\* segment (a split of text) is left out.
\* ------------------------------------------------------------------------
\* the attribute is absent
Absent == -1
\* parseFloat(item.$.dur || 5), in milliseconds
DefaultDurMs == 5000

\* all sequences over S of length at most n
RECURSIVE SeqsUpTo(_, _)
SeqsUpTo(S, n) ==
  IF n = 0 THEN {<<>>}
  ELSE LET shorter == SeqsUpTo(S, n - 1)
       IN shorter \cup {Append(q, x) : q \in {t \in shorter : Len(t) = n - 1}, x \in S}

\* one <text> element of a caption document: attrs says the element carries
\* attributes, start / dur are the attribute values (Absent when missing),
\* text is the raw character data
Elem(attrs, start, dur, text) == [attrs |-> attrs, start |-> start, dur |-> dur, text |-> text]

\* String.prototype.trim on the texts of the model
Trim(t) == IF t \in {" ", "\n"} THEN "" ELSE t

\* the five entity replacements of the timed-text branch
DecodeEntities(t) == IF t = "b &amp; c" THEN "b & c" ELSE t

Segment(id, text, startTime, endTime) ==
  [id |-> id, text |-> text, startTime |-> startTime, endTime |-> endTime]

\* the element matches /<text\s+start="([\d.]+)"\s+dur="([\d.]+)"[^>]*>([^<]+)<\/text>/
TimedTextMatches(e) ==
  e.attrs /\ e.start # Absent /\ e.start >= 0 /\ e.dur # Absent /\ e.dur >= 0 /\ e.text # ""

\* the while loop over textRegex.exec
RECURSIVE TimedTextLoop(_, _, _)
TimedTextLoop(elems, index, transcript) ==
  IF elems = <<>> THEN transcript
  ELSE LET e == Head(elems)
           text == Trim(DecodeEntities(e.text))
       IN IF TimedTextMatches(e) /\ text # ""
          THEN TimedTextLoop(Tail(elems), index + 1,
                 Append(transcript, Segment(index, text, e.start, e.start + e.dur)))
          ELSE TimedTextLoop(Tail(elems), index, transcript)

\* texts.forEach of the xml2js branch: an item without attributes or without
\* character data throws a TypeError, which the try of parseCaptionData
\* catches: the segments pushed so far stay in transcript
RECURSIVE Srv3Loop(_, _, _)
Srv3Loop(elems, index, transcript) ==
  IF elems = <<>> THEN transcript
  ELSE LET item == Head(elems)
           start == IF item.start = Absent \/ item.start = 0 THEN 0 ELSE item.start
           duration == IF item.dur = Absent THEN DefaultDurMs ELSE item.dur
       IN IF ~item.attrs \/ Trim(item.text) = ""
          THEN transcript
          ELSE Srv3Loop(Tail(elems), index + 1,
                 Append(transcript, Segment(index + 1, item.text, start, start + duration)))

\* a caption payload: a string (xml says it is a well-formed document with a
\* transcript root) or a value that is not a string
CapString(xml, elems) == [type |-> "string", xml |-> xml, elems |-> elems]
CapObject == [type |-> "object", xml |-> FALSE, elems |-> <<>>]

parseCaptionData(captionData, format) ==
  IF captionData.type # "string" THEN <<>>
  ELSE IF format = "timedtext" THEN TimedTextLoop(captionData.elems, 1, <<>>)
  ELSE IF captionData.xml /\ captionData.elems # <<>>
       THEN Srv3Loop(captionData.elems, 0, <<>>)
       ELSE <<>>

\* response.data.includes('<text')
IncludesText(data) == data.type = "string" /\ data.elems # <<>>

\* a WebVTT timestamp after split(':') : the numeric parts, the last one the
\* seconds in milliseconds
parseVTTTimestamp(parts) ==
  IF Len(parts) = 3 THEN parts[1] * 3600000 + parts[2] * 60000 + parts[3]
  ELSE IF Len(parts) = 2 THEN parts[1] * 60000 + parts[2]
  ELSE 0

\* one line of a WebVTT file after trim(): kind is "timing" (contains -->),
\* "header" (starts with WEBVTT), "blank" or "text"
VttLine(kind, s, e, text) == [kind |-> kind, s |-> s, e |-> e, text |-> text]

\* currentEntry of parseVTTToTranscript; pending says startTime is defined
NoEntry == [pending |-> FALSE, startTime |-> 0, endTime |-> 0]

RECURSIVE VttLoop(_, _, _, _)
VttLoop(lines, currentEntry, id, transcript) ==
  IF lines = <<>> THEN transcript
  ELSE LET line == Head(lines)
       IN IF line.kind = "timing"
          THEN VttLoop(Tail(lines),
                 [pending |-> TRUE,
                  startTime |-> parseVTTTimestamp(line.s),
                  endTime |-> parseVTTTimestamp(line.e)],
                 id, transcript)
          ELSE IF line.kind = "text" /\ currentEntry.pending
          THEN VttLoop(Tail(lines), NoEntry, id + 1,
                 Append(transcript,
                   Segment(id, line.text, currentEntry.startTime, currentEntry.endTime)))
          ELSE VttLoop(Tail(lines), currentEntry, id, transcript)

\* parseVTTToTranscript with let currentEntry = {startTime: 0, endTime: 0}
parseVTTToTranscript_StartsPending(vttContent) ==
  VttLoop(vttContent, [pending |-> TRUE, startTime |-> 0, endTime |-> 0], 1, <<>>)

parseVTTToTranscript(vttContent) == VttLoop(vttContent, NoEntry, 1, <<>>)

\* one event of a json3 subtitle file: segs says the event has a segs array,
\* text is the joined utf8 of the segs, tStartMs / dDurationMs may be Absent
Json3Event(segs, text, tStartMs, dDurationMs) ==
  [segs |-> segs, text |-> text, tStartMs |-> tStartMs, dDurationMs |-> dDurationMs]

\* jsonData.events.forEach of POST /extract-youtube-subtitles
RECURSIVE Json3Loop(_, _, _)
Json3Loop(events, id, transcript) ==
  IF events = <<>> THEN transcript
  ELSE LET event == Head(events)
           text == Trim(event.text)
           start == IF event.tStartMs = Absent \/ event.tStartMs = 0 THEN 0 ELSE event.tStartMs
           duration == IF event.dDurationMs = Absent \/ event.dDurationMs = 0
                       THEN 5000 ELSE event.dDurationMs
       IN IF event.segs /\ text # ""
          THEN Json3Loop(Tail(events), id + 1,
                 Append(transcript, Segment(id, text, start, start + duration)))
          ELSE Json3Loop(Tail(events), id, transcript)

\* JSON.parse of a json3 subtitle file and the events loop: a file that is
\* not valid JSON throws a SyntaxError
\* Json3Parse with let id = 0
Json3Parse_IdFromZero(fileContent) ==
  IF fileContent.valid
  THEN [threw |-> FALSE, transcript |-> Json3Loop(fileContent.body, 0, <<>>)]
  ELSE [threw |-> TRUE, transcript |-> <<>>]

Json3Parse(fileContent) ==
  IF fileContent.valid
  THEN [threw |-> FALSE, transcript |-> Json3Loop(fileContent.body, 1, <<>>)]
  ELSE [threw |-> TRUE, transcript |-> <<>>]

\* the caption elements, payloads and subtitle files the model delivers
Elems ==
  { Elem(TRUE, 0, 5000, "a"),
    Elem(TRUE, 1000, 2000, "b &amp; c"),
    Elem(TRUE, 3000, Absent, "a"),
    Elem(TRUE, 2000, 1000, " "),
    Elem(FALSE, Absent, Absent, "a") }

CapDatas(n) ==
  {CapObject} \cup {CapString(x, es) : x \in BOOLEAN, es \in SeqsUpTo(Elems, n)}

VttLines ==
  { VttLine("header", <<>>, <<>>, ""),
    VttLine("timing", <<0, 0, 1000>>, <<0, 0, 3000>>, ""),
    VttLine("timing", <<0, 2000>>, <<0, 0, 4000, 0>>, ""),
    VttLine("text", <<>>, <<>>, "a"),
    VttLine("blank", <<>>, <<>>, "") }

VttFiles(n) == SeqsUpTo(VttLines, n)

\* ------------------------------------------------------------------------
\* State
\* ------------------------------------------------------------------------
VARIABLES
  rq,     \* per request: the handler's position, locals and response
  files,  \* the files on disk: path -> [content, writer]
  now,    \* the value Date.now() returns
  job     \* one call of a pure function: its name, argument and result

vars == <<rq, files, now, job>>

\* no call of a pure function is under way
NoJob == [fn |-> "none", arg |-> <<>>, out |-> <<>>, done |-> FALSE]

EmptyMap == [x \in {} |-> 0]
Put(m, k, v) == [x \in DOMAIN m \cup {k} |-> IF x = k THEN v ELSE m[x]]
Remove(m, k) == [x \in DOMAIN m \ {k} |-> m[x]]

\* the response object of a handler; "unset" marks a property never assigned
NoResponse ==
  [ status |-> 0, success |-> "unset", method |-> "unset", transcript |-> <<>>,
    language |-> "unset", isAutoGenerated |-> "unset", methods |-> EmptyMap,
    audioExtractionAvailable |-> "unset", error |-> "unset" ]

\* a request before its handler runs
\*   sent      number of responses the handler has sent
\*   escaped   an exception left the handler
\*   inflight  the caption adapters whose call has started and not returned
\*   calls     the caption adapters in the order they were invoked
\*   produced  per finished caption stage, the transcript it delivered
\*   procs     external yt-dlp processes started and not yet exited
\*   issued    the outgoing requests and commands issued, in order
\*   keySet    process.env.OPENAI_API_KEY is set
\*   failedAt  the call whose failure the catch of /transcribe-audio handles
\*   streamed  how much of the mp3 body has gone out: "no", "partial", "full"
\*   why       per caption adapter, what happened inside it: "found" (a
\*             caption payload was delivered), "noCaptions" (the source
\*             answered and has no Japanese captions), "noFile" (yt-dlp
\*             exited with 0 and left no subtitle file), "failed" (a request
\*             or command failed, or a payload could not be read)
\*   returned  per caption adapter, the value it returned to the orchestrator
\*             without its payload: [kind, language, isAutoGenerated] for
\*             tryTimedText and tryYouTubeAPI (kind is "null" or "ok"),
\*             [success, error] for extractSubtitlesWithYtDlp
\*   language  the language hint of POST /transcribe-audio
\*   errors    the errors of the failed attempts of downloadAudio, in order
\*   rejected  the error downloadAudioWithRetry has thrown, "none" before
Idle ==
  [ endpoint |-> "none", pc |-> "idle", url |-> NoUrl, preferCaptions |-> FALSE,
    response |-> NoResponse, sent |-> 0, escaped |-> FALSE,
    inflight |-> {}, calls |-> <<>>, produced |-> EmptyMap, procs |-> 0,
    issued |-> <<>>, variant |-> 0, held |-> "none", heldAuto |-> FALSE,
    outputPath |-> Absent, selectedLang |-> "none", isAutoGenerated |-> FALSE,
    attempt |-> 0, foreignUse |-> FALSE, keySet |-> FALSE, failedAt |-> "none",
    streamed |-> "no", why |-> EmptyMap, returned |-> EmptyMap,
    errors |-> <<>>, rejected |-> "none", language |-> "unset" ]

\* inside the adapter of the stage, w has happened
Note(s, stage, w) ==
  [s EXCEPT !.why = Put(@, stage, (IF stage \in DOMAIN @ THEN @[stage] ELSE {}) \cup {w})]

\* res.status(st).json({error: e}); return
SendError(s, st, e) ==
  [s EXCEPT !.response.status = st, !.response.error = e, !.sent = @ + 1, !.pc = "done"]

\* res.json(response); return
SendJson(s) ==
  [s EXCEPT !.response.status = 200, !.sent = @ + 1, !.pc = "done"]

\* what an adapter returns to the orchestrator
AdapterNull == [kind |-> "null", captions |-> CapObject, format |-> "none",
                language |-> "none", isAutoGenerated |-> FALSE]
AdapterOk(captions, format, language, auto) ==
  [kind |-> "ok", captions |-> captions, format |-> format,
   language |-> language, isAutoGenerated |-> auto]

DiagOk(n) == [success |-> TRUE, transcriptCount |-> n, error |-> "unset"]
DiagFail(e) == [success |-> FALSE, transcriptCount |-> Absent, error |-> e]

\* the value of an adapter without its payload
Outcome(result) ==
  [kind |-> result.kind, language |-> result.language,
   isAutoGenerated |-> result.isAutoGenerated]

\* RespondSuccess without the assignment of response.transcript
RespondSuccess_NoTranscript(s, key, method, transcript, language, auto) ==
  SendJson([s EXCEPT
    !.response.success = "true",
    !.response.language = language,
    !.response.isAutoGenerated = auto,
    !.response.method = method,
    !.response.methods = Put(@, key, DiagOk(Len(transcript)))])

\* response.success = true; ... ; return res.json(response)
RespondSuccess(s, key, method, transcript, language, auto) ==
  SendJson([s EXCEPT
    !.response.success = "true",
    !.response.transcript = transcript,
    !.response.language = language,
    !.response.isAutoGenerated = auto,
    !.response.method = method,
    !.response.methods = Put(@, key, DiagOk(Len(transcript)))])

\* ------------------------------------------------------------------------
\* The file system
\* ------------------------------------------------------------------------
\* `${outputPath}.${lang}.${ext}` with outputPath = dir/base_<ts>; lang is
\* "none" for a name without language part
Path(dir, base, ts, lang, ext) ==
  [dir |-> dir, base |-> base, ts |-> ts, lang |-> lang, ext |-> ext]

FileContent(fmt, valid, body) == [fmt |-> fmt, valid |-> valid, body |-> body]

\* fs.existsSync
Exists(fs, p) == p \in DOMAIN fs
\* a process or stream of request r writes the file p
WriteFile(fs, p, c, r) == Put(fs, p, [content |-> c, writer |-> r])
\* fs.unlinkSync
Unlink(fs, p) == Remove(fs, p)
\* the file p exists and was last written for another request than r
Foreign(fs, p, r) == Exists(fs, p) /\ fs[p].writer # r

\* ------------------------------------------------------------------------
\* POST /extract-youtube-content: the orchestrator and its adapters
\* ------------------------------------------------------------------------
\* The three adapters and parseCaptionData wrap their whole body in try/catch
\* and return null, {success: false} or the transcript built so far: a failed
\* request, a non-zero exit or a JSON.parse error inside an adapter is an
\* outcome of the adapter here, and the catch blocks of the orchestrator
\* around the stages are never entered.

\* number of entries of the methods array of tryYouTubeAPI
NumVariants == 2

\* what extractSubtitlesWithYtDlp returns
YtDlpFail(e) == [success |-> FALSE, transcript |-> <<>>, language |-> "none",
                 isAutoGenerated |-> FALSE, error |-> e]
YtDlpOk(transcript, language, auto) ==
  [success |-> TRUE, transcript |-> transcript, language |-> language,
   isAutoGenerated |-> auto, error |-> "unset"]

\* AfterYtDlp with the audio fallback fields set before the stage is judged
AfterYtDlp_FlagAlways(s, result) ==
  LET s1 == [s EXCEPT !.inflight = @ \ {"ytDlpSubtitles"},
                      !.procs = 0,
                      !.produced = Put(@, "ytDlpSubtitles", result.transcript),
                      !.response.audioExtractionAvailable = "true"]
  IN IF result.success /\ Len(result.transcript) > 0
     THEN RespondSuccess(s1, "ytDlpSubtitles", "yt-dlp-subtitles", result.transcript,
                         result.language, result.isAutoGenerated)
     ELSE SendJson([s1 EXCEPT
            !.response.methods = Put(@, "ytDlpSubtitles",
               DiagFail(IF result.error # "unset" THEN result.error ELSE "No subtitles found")),
            !.response.success = "false"])

\* the orchestrator after extractSubtitlesWithYtDlp has returned: stage 3 and
\* the audio fallback
AfterYtDlp(s, result) ==
  LET s1 == [s EXCEPT !.inflight = @ \ {"ytDlpSubtitles"},
                      !.procs = 0,
                      !.returned = Put(@, "ytDlpSubtitles",
                                       [success |-> result.success, error |-> result.error]),
                      !.produced = Put(@, "ytDlpSubtitles", result.transcript)]
  IN IF result.success /\ Len(result.transcript) > 0
     THEN RespondSuccess(s1, "ytDlpSubtitles", "yt-dlp-subtitles", result.transcript,
                         result.language, result.isAutoGenerated)
     ELSE SendJson([s1 EXCEPT
            !.response.methods = Put(@, "ytDlpSubtitles",
               DiagFail(IF result.error # "unset" THEN result.error ELSE "No subtitles found")),
            !.response.success = "false",
            !.response.audioExtractionAvailable = "true"])

\* the call of extractSubtitlesWithYtDlp up to its first await: the output
\* path is named after the clock t and the video description is requested
extractSubtitlesWithYtDlp(s, t) ==
  [s EXCEPT !.pc = "yt_info",
            !.inflight = @ \cup {"ytDlpSubtitles"},
            !.calls = Append(@, "ytDlpSubtitles"),
            !.outputPath = t,
            !.issued = Append(@, "dump-json"),
            !.procs = 1]

\* AfterYouTubeAPI without the return after a successful stage 2
AfterYouTubeAPI_NoReturn(s, apiResult, t) ==
  LET transcript == IF apiResult.kind = "ok"
                    THEN parseCaptionData(apiResult.captions, apiResult.format)
                    ELSE <<>>
      s1 == [s EXCEPT !.inflight = @ \ {"youtubeApi"},
                      !.produced = Put(@, "youtubeApi", transcript)]
  IN extractSubtitlesWithYtDlp(
       [s1 EXCEPT !.response.methods = Put(@, "youtubeApi", DiagFail("No captions found"))],
       t)

\* the orchestrator after tryYouTubeAPI has returned: stage 2, then the call
\* of stage 3
AfterYouTubeAPI(s, apiResult, t) ==
  LET transcript == IF apiResult.kind = "ok"
                    THEN parseCaptionData(apiResult.captions, apiResult.format)
                    ELSE <<>>
      s1 == [s EXCEPT !.inflight = @ \ {"youtubeApi"},
                      !.returned = Put(@, "youtubeApi", Outcome(apiResult)),
                      !.produced = Put(@, "youtubeApi", transcript)]
  IN IF apiResult.kind = "ok" /\ Len(transcript) > 0
     THEN RespondSuccess(s1, "youtubeApi", "youtube-api", transcript,
                         apiResult.language, apiResult.isAutoGenerated)
     ELSE extractSubtitlesWithYtDlp(
            [s1 EXCEPT !.response.methods = Put(@, "youtubeApi", DiagFail("No captions found"))],
            t)

\* the call of tryYouTubeAPI up to its first await: the first variant of the
\* metadata endpoint is requested
tryYouTubeAPI(s) ==
  [s EXCEPT !.pc = "api_info",
            !.inflight = @ \cup {"youtubeApi"},
            !.calls = Append(@, "youtubeApi"),
            !.variant = 1,
            !.issued = Append(@, "get_video_info")]

\* AfterTimedText without the return after a successful stage 1
AfterTimedText_NoReturn(s, timedTextResult) ==
  LET transcript == IF timedTextResult.kind = "ok"
                    THEN parseCaptionData(timedTextResult.captions, timedTextResult.format)
                    ELSE <<>>
      s1 == [s EXCEPT !.inflight = @ \ {"timedtext"},
                      !.produced = Put(@, "timedtext", transcript)]
  IN tryYouTubeAPI(
       [s1 EXCEPT !.response.methods =
          Put(@, "timedtext", DiagFail("No captions found via timedtext"))])

\* AfterTimedText without the diagnostic entry of a failed stage 1
AfterTimedText_NoDiag(s, timedTextResult) ==
  LET transcript == IF timedTextResult.kind = "ok"
                    THEN parseCaptionData(timedTextResult.captions, timedTextResult.format)
                    ELSE <<>>
      s1 == [s EXCEPT !.inflight = @ \ {"timedtext"},
                      !.produced = Put(@, "timedtext", transcript)]
  IN IF timedTextResult.kind = "ok" /\ Len(transcript) > 0
     THEN RespondSuccess(s1, "timedtext", "timedtext", transcript,
                         timedTextResult.language, timedTextResult.isAutoGenerated)
     ELSE tryYouTubeAPI(s1)

\* the orchestrator after tryTimedText has returned: stage 1, then the call of
\* stage 2
AfterTimedText(s, timedTextResult) ==
  LET transcript == IF timedTextResult.kind = "ok"
                    THEN parseCaptionData(timedTextResult.captions, timedTextResult.format)
                    ELSE <<>>
      s1 == [s EXCEPT !.inflight = @ \ {"timedtext"},
                      !.returned = Put(@, "timedtext", Outcome(timedTextResult)),
                      !.produced = Put(@, "timedtext", transcript)]
  IN IF timedTextResult.kind = "ok" /\ Len(transcript) > 0
     THEN RespondSuccess(s1, "timedtext", "timedtext", transcript,
                         timedTextResult.language, timedTextResult.isAutoGenerated)
     ELSE tryYouTubeAPI(
            [s1 EXCEPT !.response.methods =
               Put(@, "timedtext", DiagFail("No captions found via timedtext"))])

\* the call of tryTimedText up to its first await: the manual lookup
tryTimedText(s) ==
  [s EXCEPT !.pc = "tt_manual",
            !.inflight = @ \cup {"timedtext"},
            !.calls = Append(@, "timedtext"),
            !.issued = Append(@, "manual")]

\* ContentEntry with stages 1 and 2 run whatever preferCaptions is
ContentEntry_IgnoresPrefer(url, preferCaptions, t) ==
  LET s == [Idle EXCEPT !.endpoint = "content", !.url = url,
                        !.preferCaptions = preferCaptions]
      videoId == extractVideoId(url)
  IN IF Falsy(url) THEN SendError(s, 400, "URL is required")
     ELSE IF ~isValidYouTubeUrl(url) THEN SendError(s, 400, "Invalid YouTube URL")
     ELSE IF videoId.kind = "throw" THEN [s EXCEPT !.escaped = TRUE, !.pc = "done"]
     ELSE IF videoId.kind = "null"
          THEN SendError(s, 400, "Could not extract video ID from URL")
     ELSE tryTimedText(s)

\* ContentEntry with tryTimedText called without await: stage 2 starts while
\* stage 1 is in flight
ContentEntry_NoAwait(url, preferCaptions, t) ==
  LET s == [Idle EXCEPT !.endpoint = "content", !.url = url,
                        !.preferCaptions = preferCaptions]
      videoId == extractVideoId(url)
  IN IF Falsy(url) THEN SendError(s, 400, "URL is required")
     ELSE IF ~isValidYouTubeUrl(url) THEN SendError(s, 400, "Invalid YouTube URL")
     ELSE IF videoId.kind = "throw" THEN [s EXCEPT !.escaped = TRUE, !.pc = "done"]
     ELSE IF videoId.kind = "null"
          THEN SendError(s, 400, "Could not extract video ID from URL")
     ELSE IF preferCaptions THEN tryYouTubeAPI(tryTimedText(s))
     ELSE extractSubtitlesWithYtDlp(s, t)

\* the handler from its entry to the first await
ContentEntry(url, preferCaptions, t) ==
  LET s == [Idle EXCEPT !.endpoint = "content", !.url = url,
                        !.preferCaptions = preferCaptions]
      videoId == extractVideoId(url)
  IN IF Falsy(url) THEN SendError(s, 400, "URL is required")
     ELSE IF ~isValidYouTubeUrl(url) THEN SendError(s, 400, "Invalid YouTube URL")
     ELSE IF videoId.kind = "throw" THEN [s EXCEPT !.escaped = TRUE, !.pc = "done"]
     ELSE IF videoId.kind = "null"
          THEN SendError(s, 400, "Could not extract video ID from URL")
     ELSE IF preferCaptions THEN tryTimedText(s)
     ELSE extractSubtitlesWithYtDlp(s, t)

\* a request arrives at POST /extract-youtube-content
ExtractYoutubeContent(r, urls, prefs) ==
  /\ rq[r].pc = "idle"
  /\ \E url \in urls, preferCaptions \in prefs :
       rq' = [rq EXCEPT ![r] = ContentEntry(url, preferCaptions, now)]
  /\ UNCHANGED <<files, now, job>>

\* tryTimedText after the manual lookup has settled with data or an error
TimedTextManual(s, failed, data) ==
  IF failed \/ data.type = "object"
  THEN AfterTimedText(Note(s, "timedtext", "failed"), AdapterNull)
  ELSE IF IncludesText(data)
       THEN AfterTimedText(Note(s, "timedtext", "found"),
                           AdapterOk(data, "timedtext", "ja", FALSE))
       ELSE [s EXCEPT !.pc = "tt_auto", !.issued = Append(@, "asr")]

TimedTextManualReply(r, datas) ==
  /\ rq[r].pc = "tt_manual"
  /\ \E failed \in BOOLEAN :
       \E data \in (IF failed THEN {CapObject} ELSE datas) :
         rq' = [rq EXCEPT ![r] = TimedTextManual(rq[r], failed, data)]
  /\ UNCHANGED <<files, now, job>>

\* tryTimedText after the kind=asr lookup has settled
\* TimedTextAuto with isAutoGenerated: false copied from the first branch
TimedTextAuto_NotAuto(s, failed, data) ==
  IF failed \/ data.type = "object"
  THEN AfterTimedText(Note(s, "timedtext", "failed"), AdapterNull)
  ELSE IF IncludesText(data)
       THEN AfterTimedText(Note(s, "timedtext", "found"),
                           AdapterOk(data, "timedtext", "ja", FALSE))
       ELSE AfterTimedText(Note(s, "timedtext", "noCaptions"), AdapterNull)

TimedTextAuto(s, failed, data) ==
  IF failed \/ data.type = "object"
  THEN AfterTimedText(Note(s, "timedtext", "failed"), AdapterNull)
  ELSE IF IncludesText(data)
       THEN AfterTimedText(Note(s, "timedtext", "found"),
                           AdapterOk(data, "timedtext", "ja", TRUE))
       ELSE AfterTimedText(Note(s, "timedtext", "noCaptions"), AdapterNull)

TimedTextAutoReply(r, datas) ==
  /\ rq[r].pc = "tt_auto"
  /\ \E failed \in BOOLEAN :
       \E data \in (IF failed THEN {CapObject} ELSE datas) :
         rq' = [rq EXCEPT ![r] = TimedTextAuto(rq[r], failed, data)]
  /\ UNCHANGED <<files, now, job>>

\* POST /extract-youtube-subtitles after tryYouTubeAPI has returned: the
\* captions are parsed and sent, or the yt-dlp path starts with the output
\* path named after the clock t and the request for the video description
AfterYouTubeAPISubtitles(s, apiResult, t) ==
  LET s1 == [s EXCEPT !.inflight = @ \ {"youtubeApi"}]
  IN IF apiResult.kind = "ok"
     THEN SendJson([s1 EXCEPT
            !.response.transcript = parseCaptionData(apiResult.captions, apiResult.format),
            !.response.language = apiResult.language,
            !.response.isAutoGenerated = apiResult.isAutoGenerated,
            !.response.method = "youtube-api"])
     ELSE [s1 EXCEPT !.pc = "sub_info", !.outputPath = t, !.procs = 1,
                     !.issued = Append(@, "dump-json")]

\* tryYouTubeAPI returns to the handler that awaits it
ReturnFromYouTubeAPI(s, apiResult, t) ==
  IF s.endpoint = "content" THEN AfterYouTubeAPI(s, apiResult, t)
  ELSE AfterYouTubeAPISubtitles(s, apiResult, t)

\* one entry of captionTracks: asr is kind === 'asr', vssJa is
\* vssId.includes('.ja'), vssA is vssId.includes('.a.')
Track(languageCode, asr, vssJa, vssA) ==
  [languageCode |-> languageCode, asr |-> asr, vssJa |-> vssJa, vssA |-> vssA]

\* the predicate of captionTracks.find
IsJaTrack(track) ==
  track.languageCode = "ja" \/ track.languageCode = "ja-JP" \/ track.vssJa

\* Array.prototype.find: the index of the first ja track, 0 when none
FindJa(captionTracks) ==
  LET hits == {i \in 1..Len(captionTracks) : IsJaTrack(captionTracks[i])}
  IN IF hits = {} THEN 0 ELSE CHOOSE i \in hits : \A j \in hits : i <= j

\* what tryYouTubeAPI takes from captionTracks: the index of jaTrack (0 when
\* there is none), its languageCode and the isAutoGenerated it reports
JaTrack(captionTracks) ==
  LET i == FindJa(captionTracks)
  IN IF i = 0 THEN [index |-> 0, language |-> "none", isAutoGenerated |-> FALSE]
     ELSE [index |-> i, language |-> captionTracks[i].languageCode,
           isAutoGenerated |-> captionTracks[i].asr \/ captionTracks[i].vssA]

\* NextVariant with a return null where the loop should continue
NextVariant_GivesUp(s, t) == ReturnFromYouTubeAPI(s, AdapterNull, t)

\* the loop of tryYouTubeAPI moves on after a variant has failed: the next
\* variant is requested, or null is returned to the orchestrator
NextVariant(s, t) ==
  IF s.variant < NumVariants
  THEN [s EXCEPT !.pc = "api_info", !.variant = @ + 1,
                 !.issued = Append(@, "get_video_info_embedded")]
  ELSE ReturnFromYouTubeAPI(s, AdapterNull, t)

\* tryYouTubeAPI after the metadata request of a variant has settled:
\* outcome is "error", "noPlayerResponse", "badJson" or "tracks"
VideoInfo(s, outcome, captionTracks, t) ==
  LET i == FindJa(captionTracks)
  IN IF outcome = "tracks" /\ i # 0
     THEN [s EXCEPT !.pc = "api_caption",
                    !.held = captionTracks[i].languageCode,
                    !.heldAuto = captionTracks[i].asr \/ captionTracks[i].vssA,
                    !.issued = Append(@, "baseUrl")]
     ELSE NextVariant(Note(s, "youtubeApi",
                           IF outcome = "tracks" THEN "noCaptions" ELSE "failed"), t)

VideoInfoReply(r, trackLists) ==
  /\ rq[r].pc = "api_info"
  /\ \E outcome \in {"error", "noPlayerResponse", "badJson", "tracks"} :
       \E captionTracks \in (IF outcome = "tracks" THEN trackLists ELSE {<<>>}) :
         rq' = [rq EXCEPT ![r] = VideoInfo(rq[r], outcome, captionTracks, now)]
  /\ UNCHANGED <<files, now, job>>

\* tryYouTubeAPI after the request for the track body has settled
CaptionBody(s, failed, data, t) ==
  IF failed THEN NextVariant(Note(s, "youtubeApi", "failed"), t)
  ELSE ReturnFromYouTubeAPI(Note(s, "youtubeApi", "found"),
                            AdapterOk(data, "srv3", s.held, s.heldAuto), t)

CaptionBodyReply(r, datas) ==
  /\ rq[r].pc = "api_caption"
  /\ \E failed \in BOOLEAN :
       \E data \in (IF failed THEN {CapObject} ELSE datas) :
         rq' = [rq EXCEPT ![r] = CaptionBody(rq[r], failed, data, now)]
  /\ UNCHANGED <<files, now, job>>

\* videoInfo of yt-dlp --dump-json: the languages of subtitles and of
\* automatic_captions
VideoInfoJson(subtitles, automaticCaptions) ==
  [subtitles |-> subtitles, automaticCaptions |-> automaticCaptions]

\* SelectLang falling back to English captions
SelectLang_TakesEnglish(videoInfo) ==
  IF "ja" \in videoInfo.subtitles \/ "ja-JP" \in videoInfo.subtitles
  THEN <<IF "ja" \in videoInfo.subtitles THEN "ja" ELSE "ja-JP", FALSE>>
  ELSE IF "ja" \in videoInfo.automaticCaptions \/ "ja-JP" \in videoInfo.automaticCaptions
  THEN <<IF "ja" \in videoInfo.automaticCaptions THEN "ja" ELSE "ja-JP", TRUE>>
  ELSE IF "en" \in videoInfo.subtitles THEN <<"en", FALSE>>
  ELSE <<"none", FALSE>>

\* the language selection of the yt-dlp paths: <<selectedLang, isAutoGenerated>>
SelectLang(videoInfo) ==
  IF "ja" \in videoInfo.subtitles \/ "ja-JP" \in videoInfo.subtitles
  THEN <<IF "ja" \in videoInfo.subtitles THEN "ja" ELSE "ja-JP", FALSE>>
  ELSE IF "ja" \in videoInfo.automaticCaptions \/ "ja-JP" \in videoInfo.automaticCaptions
  THEN <<IF "ja" \in videoInfo.automaticCaptions THEN "ja" ELSE "ja-JP", TRUE>>
  ELSE <<"none", FALSE>>

\* extractSubtitlesWithYtDlp after yt-dlp --dump-json has exited: outcome is
\* "error" (non-zero exit), "badJson" (JSON.parse throws) or "info"
YtDlpInfo(s, outcome, videoInfo) ==
  LET sel == SelectLang(videoInfo)
      n(w) == Note(s, "ytDlpSubtitles", w)
  IN IF outcome = "error" THEN AfterYtDlp(n("failed"), YtDlpFail("Command failed"))
     ELSE IF outcome = "badJson" THEN AfterYtDlp(n("failed"), YtDlpFail("Unexpected token"))
     ELSE IF sel[1] = "none"
          THEN AfterYtDlp(n("noCaptions"), YtDlpFail("No Japanese subtitles available"))
     ELSE [s EXCEPT !.pc = "yt_subs", !.selectedLang = sel[1],
                    !.isAutoGenerated = sel[2], !.procs = 1,
                    !.issued = Append(@, "subs-vtt")]

YtDlpInfoExit(r, infos) ==
  /\ rq[r].pc = "yt_info"
  /\ \E outcome \in {"error", "badJson", "info"} :
       \E videoInfo \in (IF outcome = "info" THEN infos ELSE {VideoInfoJson({}, {})}) :
         rq' = [rq EXCEPT ![r] = YtDlpInfo(rq[r], outcome, videoInfo)]
  /\ UNCHANGED <<files, now, job>>

\* `${outputPath}.${selectedLang}.vtt`
VttPath(s) == Path("downloads", "subs", s.outputPath, s.selectedLang, "vtt")

\* the files after the subtitle download of request r has exited: written
\* says yt-dlp produced the subtitle file
YtDlpSubsWrite(fs, s, r, written, vttContent) ==
  IF written THEN WriteFile(fs, VttPath(s), FileContent("vtt", TRUE, vttContent), r) ELSE fs

\* extractSubtitlesWithYtDlp after the subtitle download has exited, on the
\* files fs the download left: the file is read, parsed and deleted
YtDlpSubs(s, fs, r, failed) ==
  IF failed THEN AfterYtDlp(Note(s, "ytDlpSubtitles", "failed"), YtDlpFail("Command failed"))
  ELSE IF Exists(fs, VttPath(s))
  THEN AfterYtDlp([Note(s, "ytDlpSubtitles", "found") EXCEPT
                     !.foreignUse = @ \/ Foreign(fs, VttPath(s), r)],
                  YtDlpOk(parseVTTToTranscript(fs[VttPath(s)].content.body),
                          s.selectedLang, s.isAutoGenerated))
  ELSE AfterYtDlp(Note(s, "ytDlpSubtitles", "noFile"),
                  YtDlpFail("Failed to download subtitles"))

\* the files after extractSubtitlesWithYtDlp has handled the download
YtDlpSubsFiles(s, fs, failed) ==
  IF ~failed /\ Exists(fs, VttPath(s)) THEN Unlink(fs, VttPath(s)) ELSE fs

YtDlpSubsExit(r, vttFiles) ==
  /\ rq[r].pc = "yt_subs"
  /\ \E failed \in BOOLEAN, written \in BOOLEAN :
     \E vttContent \in (IF written THEN vttFiles ELSE {<<>>}) :
       /\ ~(failed /\ written)
       /\ LET fs == YtDlpSubsWrite(files, rq[r], r, written, vttContent)
          IN /\ rq' = [rq EXCEPT ![r] =
                         [YtDlpSubs(rq[r], fs, r, failed) EXCEPT
                            !.foreignUse = @ \/ (written /\ Foreign(files, VttPath(rq[r]), r))]]
             /\ files' = YtDlpSubsFiles(rq[r], fs, failed)
  /\ UNCHANGED <<now, job>>

\* ------------------------------------------------------------------------
\* POST /extract-youtube-subtitles
\* ------------------------------------------------------------------------
\* the handler from its entry to the first await
SubtitlesEntry(url) ==
  LET s == [Idle EXCEPT !.endpoint = "subtitles", !.url = url]
      videoId == extractVideoId(url)
  IN IF Falsy(url) THEN SendError(s, 400, "URL is required")
     ELSE IF ~isValidYouTubeUrl(url) THEN SendError(s, 400, "Invalid YouTube URL")
     ELSE IF videoId.kind = "throw" THEN SendError(s, 500, "Failed to extract subtitles")
     ELSE IF videoId.kind = "null"
          THEN SendError(s, 400, "Could not extract video ID from URL")
     ELSE tryYouTubeAPI(s)

ExtractYoutubeSubtitles(r, urls) ==
  /\ rq[r].pc = "idle"
  /\ \E url \in urls : rq' = [rq EXCEPT ![r] = SubtitlesEntry(url)]
  /\ UNCHANGED <<files, now, job>>

\* the handler after yt-dlp --dump-json has exited
SubtitlesInfo(s, outcome, videoInfo) ==
  LET sel == SelectLang(videoInfo)
      n(w) == Note([s EXCEPT !.procs = 0], "ytDlpSubtitles", w)
  IN IF outcome # "info" THEN SendError(n("failed"), 500, "Failed to extract subtitles")
     ELSE IF sel[1] = "none" THEN SendError(n("noCaptions"), 404, "No Japanese subtitles found")
     ELSE [s EXCEPT !.pc = "sub_json3", !.selectedLang = sel[1],
                    !.isAutoGenerated = sel[2], !.procs = 1,
                    !.issued = Append(@, "subs-json3")]

SubtitlesInfoExit(r, infos) ==
  /\ rq[r].pc = "sub_info"
  /\ \E outcome \in {"error", "badJson", "info"} :
       \E videoInfo \in (IF outcome = "info" THEN infos ELSE {VideoInfoJson({}, {})}) :
         rq' = [rq EXCEPT ![r] = SubtitlesInfo(rq[r], outcome, videoInfo)]
  /\ UNCHANGED <<files, now, job>>

\* `${outputPath}.${selectedLang}.${ext}` and `${outputPath}.${ext}`
SubsPaths(s, ext) ==
  << Path("downloads", "subs", s.outputPath, s.selectedLang, ext),
     Path("downloads", "subs", s.outputPath, "none", ext) >>

\* the first of the paths that exists: its index, 0 when none does
FirstExisting(fs, paths) ==
  LET hits == {i \in 1..Len(paths) : Exists(fs, paths[i])}
  IN IF hits = {} THEN 0 ELSE CHOOSE i \in hits : \A j \in hits : i <= j

\* the subtitle file is read, parsed and deleted, and the transcript is sent;
\* a file that JSON.parse rejects throws into the catch of the handler.
\* The result is <<request, files>>.
ParseSubtitles(s, fs, subsPath, r) ==
  LET content == fs[subsPath].content
      s1 == [s EXCEPT !.procs = 0, !.foreignUse = @ \/ Foreign(fs, subsPath, r)]
      transcript == IF subsPath.ext = "json3"
                    THEN Json3Loop(content.body, 1, <<>>)
                    ELSE parseVTTToTranscript(content.body)
  IN IF subsPath.ext = "json3" /\ ~content.valid
     THEN <<SendError(s1, 500, "Failed to extract subtitles"), fs>>
     ELSE << SendJson([s1 EXCEPT !.response.transcript = transcript,
                                 !.response.language = s.selectedLang,
                                 !.response.isAutoGenerated = s.isAutoGenerated]),
             Unlink(fs, subsPath) >>

\* the handler after the json3 download has exited, on the files fs the
\* download left; the result is <<request, files>>
SubtitlesJson3(s, fs, r, failed) ==
  LET i == FirstExisting(fs, SubsPaths(s, "json3"))
  IN IF failed THEN <<SendError([s EXCEPT !.procs = 0], 500, "Failed to extract subtitles"), fs>>
     ELSE IF i # 0 THEN ParseSubtitles(s, fs, SubsPaths(s, "json3")[i], r)
     ELSE <<[s EXCEPT !.pc = "sub_vtt", !.procs = 1, !.issued = Append(@, "subs-vtt")], fs>>

\* the files after a subtitle download of request r has exited: written says
\* yt-dlp produced `${outputPath}.${selectedLang}.${ext}`
SubsWrite(fs, s, r, ext, written, content) ==
  IF written THEN WriteFile(fs, SubsPaths(s, ext)[1], content, r) ELSE fs

SubtitlesJson3Exit(r, jsonFiles) ==
  /\ rq[r].pc = "sub_json3"
  /\ \E failed \in BOOLEAN, written \in BOOLEAN :
     \E content \in (IF written THEN jsonFiles ELSE {FileContent("json3", FALSE, <<>>)}) :
       /\ ~(failed /\ written)
       /\ LET fs == SubsWrite(files, rq[r], r, "json3", written, content)
              out == SubtitlesJson3(rq[r], fs, r, failed)
          IN /\ rq' = [rq EXCEPT ![r] =
                         [out[1] EXCEPT !.foreignUse =
                            @ \/ (written /\ Foreign(files, SubsPaths(rq[r], "json3")[1], r))]]
             /\ files' = out[2]
  /\ UNCHANGED <<now, job>>

\* the handler after the vtt download has exited
SubtitlesVtt(s, fs, r, failed) ==
  LET i == FirstExisting(fs, SubsPaths(s, "vtt"))
  IN IF failed \/ i = 0
     THEN <<SendError([s EXCEPT !.procs = 0], 500, "Failed to extract subtitles"), fs>>
     ELSE ParseSubtitles(s, fs, SubsPaths(s, "vtt")[i], r)

SubtitlesVttExit(r, vttFiles) ==
  /\ rq[r].pc = "sub_vtt"
  /\ \E failed \in BOOLEAN, written \in BOOLEAN :
     \E vttContent \in (IF written THEN vttFiles ELSE {<<>>}) :
       /\ ~(failed /\ written)
       /\ LET fs == SubsWrite(files, rq[r], r, "vtt", written,
                              FileContent("vtt", TRUE, vttContent))
              out == SubtitlesVtt(rq[r], fs, r, failed)
          IN /\ rq' = [rq EXCEPT ![r] =
                         [out[1] EXCEPT !.foreignUse =
                            @ \/ (written /\ Foreign(files, SubsPaths(rq[r], "vtt")[1], r))]]
             /\ files' = out[2]
  /\ UNCHANGED <<now, job>>

\* ------------------------------------------------------------------------
\* POST /transcribe-audio
\* ------------------------------------------------------------------------
\* path.join(tempDir, `audio_${Date.now()}.mp3`)
TempFilePath(s) == Path("temp", "audio", s.outputPath, "none", "mp3")

\* an mp3 file that is completely written, and the temporary file while the
\* body of the response is still piped into it
Mp3Content == FileContent("mp3", TRUE, <<>>)
Mp3Partial == FileContent("mp3", FALSE, <<>>)

\* the handler from its entry to the first await: the download of audioUrl
TranscribeEntry(hasUrl, language, keySet, t) ==
  LET s == [Idle EXCEPT !.endpoint = "transcribe", !.keySet = keySet,
                        !.language = IF language = "unset" THEN "ja" ELSE language]
  IN IF ~hasUrl THEN SendError(s, 400, "Audio URL is required")
     ELSE IF ~keySet THEN SendError(s, 500, "OpenAI API key not configured")
     ELSE [s EXCEPT !.pc = "tr_get", !.outputPath = t, !.issued = Append(@, "audio-get")]

TranscribeAudio(r, languages) ==
  /\ rq[r].pc = "idle"
  /\ \E hasUrl \in BOOLEAN, language \in languages, keySet \in BOOLEAN :
       rq' = [rq EXCEPT ![r] = TranscribeEntry(hasUrl, language, keySet, now)]
  /\ UNCHANGED <<files, now, job>>

\* the catch of the handler: status is error.response.status (0 when the
\* error has no response), apiError is error.response.data.error
TranscribeCatch(s, from, status, apiError) ==
  LET s1 == [s EXCEPT !.failedAt = from]
  IN IF status = 401 THEN SendError(s1, 401, "Invalid OpenAI API key")
     ELSE IF status = 429 THEN SendError(s1, 429, "OpenAI API rate limit exceeded")
     ELSE IF apiError THEN SendError(s1, 500, "error.response.data.error.message")
     ELSE SendError(s1, 500, "Failed to transcribe audio")

\* the statuses a failed request carries; 0 is a failure without response
ErrorStatuses == {0, 401, 429, 500}

\* TranscribeGet without the await of the writer
TranscribeGet_NoAwait(s, failed, status) ==
  IF failed THEN TranscribeCatch(s, "download", status, FALSE)
  ELSE [s EXCEPT !.pc = "tr_whisper", !.issued = Append(@, "whisper-post")]

\* the handler after the GET of audioUrl has settled: on success the write
\* stream on the temporary file is opened
TranscribeGet(s, failed, status) ==
  IF failed THEN TranscribeCatch(s, "download", status, FALSE)
  ELSE [s EXCEPT !.pc = "tr_write"]

TranscribeGetReply(r) ==
  /\ rq[r].pc = "tr_get"
  /\ \E failed \in BOOLEAN, status \in ErrorStatuses :
       /\ rq' = [rq EXCEPT ![r] =
                   [TranscribeGet(rq[r], failed, status) EXCEPT !.foreignUse =
                      @ \/ (~failed /\ Foreign(files, TempFilePath(rq[r]), r))]]
       /\ files' = IF failed THEN files
                   ELSE WriteFile(files, TempFilePath(rq[r]), Mp3Partial, r)
  /\ UNCHANGED <<now, job>>

\* the handler after the write stream has emitted finish or error: on finish
\* the file is posted to the transcription API
TranscribeWritten(s, failed) ==
  IF failed THEN TranscribeCatch(s, "write", 0, FALSE)
  ELSE [s EXCEPT !.pc = "tr_whisper", !.issued = Append(@, "whisper-post")]

\* the temporary file after the writer has emitted finish
WriterFinish(fs, p) ==
  IF Exists(fs, p) THEN [fs EXCEPT ![p].content = Mp3Content] ELSE fs

TranscribeWriterDone(r) ==
  /\ rq[r].pc = "tr_write"
  /\ \E failed \in BOOLEAN :
       /\ rq' = [rq EXCEPT ![r] = TranscribeWritten(rq[r], failed)]
       /\ files' = IF failed THEN files ELSE WriterFinish(files, TempFilePath(rq[r]))
  /\ UNCHANGED <<now, job>>

\* whisperResponse.data: hasSegments says the segments array is there,
\* hasText says text is
WhisperData(hasSegments, segments, hasText, text) ==
  [hasSegments |-> hasSegments, segments |-> segments, hasText |-> hasText, text |-> text]

\* one entry of whisperData.segments
WhisperSegment(text, start, end) == [text |-> text, start |-> start, end |-> end]

\* the transcript built from whisperData: without segments and without text,
\* whisperData.text.split throws
WhisperParse(whisperData) ==
  IF whisperData.hasSegments
  THEN [threw |-> FALSE,
        transcript |-> [i \in 1..Len(whisperData.segments) |->
                          Segment(i, Trim(whisperData.segments[i].text),
                                  whisperData.segments[i].start,
                                  whisperData.segments[i].end)]]
  ELSE IF whisperData.hasText
  THEN [threw |-> FALSE, transcript |-> <<Segment(1, whisperData.text, 0, 0)>>]
  ELSE [threw |-> TRUE, transcript |-> <<>>]

\* the handler after the POST to the transcription API has settled.
\* The result is <<request, files>>.
TranscribeWhisper(s, fs, r, failed, status, apiError, whisperData) ==
  IF failed THEN <<TranscribeCatch(s, "whisper", status, apiError), fs>>
  ELSE IF ~Exists(fs, TempFilePath(s))
  THEN <<TranscribeCatch(s, "unlink", 0, FALSE), fs>>
  ELSE LET s1 == [s EXCEPT !.foreignUse = @ \/ Foreign(fs, TempFilePath(s), r)]
           fs1 == Unlink(fs, TempFilePath(s))
           parsed == WhisperParse(whisperData)
       IN IF parsed.threw THEN <<TranscribeCatch(s1, "parse", 0, FALSE), fs1>>
          ELSE <<SendJson([s1 EXCEPT !.response.transcript = parsed.transcript]), fs1>>

\* the responses of the transcription API the model delivers
WhisperSegments ==
  { WhisperSegment("a", 0, 1000), WhisperSegment(" ", 1000, 2000),
    WhisperSegment("b", 2000, 4000) }

WhisperDatas(n) ==
  {WhisperData(TRUE, segs, TRUE, "a") : segs \in SeqsUpTo(WhisperSegments, n)}
  \cup {WhisperData(FALSE, <<>>, TRUE, "a"), WhisperData(FALSE, <<>>, FALSE, "")}

TranscribeWhisperReply(r, datas) ==
  /\ rq[r].pc = "tr_whisper"
  /\ \E failed \in BOOLEAN :
     \E status \in (IF failed THEN ErrorStatuses ELSE {0}),
        apiError \in (IF failed THEN BOOLEAN ELSE {FALSE}),
        whisperData \in (IF failed THEN {WhisperData(FALSE, <<>>, FALSE, "")} ELSE datas) :
       LET out == TranscribeWhisper(rq[r], files, r, failed, status, apiError, whisperData)
       IN /\ rq' = [rq EXCEPT ![r] = out[1]]
          /\ files' = out[2]
  /\ UNCHANGED <<now, job>>

\* ------------------------------------------------------------------------
\* POST /extract-audio
\* ------------------------------------------------------------------------
\* the default of the parameter maxRetries of downloadAudioWithRetry
MaxRetries == 3

\* `${outputPath}.mp3`
Mp3Path(s) == Path("downloads", "audio", s.outputPath, "none", "mp3")

\* the handler from its entry to the first await: the first download attempt
AudioEntry(url, t) ==
  LET s == [Idle EXCEPT !.endpoint = "audio", !.url = url]
  IN IF Falsy(url) THEN SendError(s, 400, "URL is required")
     ELSE IF ~isValidYouTubeUrl(url) THEN SendError(s, 400, "Invalid YouTube URL")
     ELSE [s EXCEPT !.pc = "au_download", !.outputPath = t, !.attempt = 1,
                    !.procs = 1, !.issued = Append(@, "download")]

ExtractAudio(r, urls) ==
  /\ rq[r].pc = "idle"
  /\ \E url \in urls : rq' = [rq EXCEPT ![r] = AudioEntry(url, now)]
  /\ UNCHANGED <<files, now, job>>

\* what yt-dlp wrote to stderr, as far as the close handler of downloadAudio
\* looks at it: signIn is includes('Sign in to confirm'), bot is
\* includes('bot'), unavailable is includes('Video unavailable'), errorLine
\* is "none" (no 'ERROR:'), "bare" ('ERROR:' that /ERROR:\s*(.+)/ does not
\* match) or "text", has429 is includes('429'), tooMany is
\* includes('Too Many Requests')
Stderr(signIn, bot, unavailable, errorLine, has429, tooMany) ==
  [signIn |-> signIn, bot |-> bot, unavailable |-> unavailable,
   errorLine |-> errorLine, has429 |-> has429, tooMany |-> tooMany]

\* the message of the error downloadAudio rejects with
ErrBlocked == "YouTube is blocking the server"
ErrUnavailable == "Video is unavailable"
ErrRateLimited == "YouTube is rate limiting the server"
ErrRaw == "errorMatch[1]"
ErrExitCode == "yt-dlp exited with code"
ErrSpawn == "spawn error"

\* ytDlp.on('close') of downloadAudio: the promise resolves on exit code 0
\* and rejects with a message chosen from stderr otherwise
CloseHandler(code, stderrData) ==
  IF code = 0 THEN [resolved |-> TRUE, error |-> "none"]
  ELSE [resolved |-> FALSE,
        error |-> IF stderrData.signIn \/ stderrData.bot THEN ErrBlocked
                  ELSE IF stderrData.unavailable THEN ErrUnavailable
                  ELSE IF stderrData.errorLine # "none"
                       THEN (IF stderrData.errorLine = "text" THEN ErrRaw ELSE ErrExitCode)
                  ELSE IF stderrData.has429 \/ stderrData.tooMany THEN ErrRateLimited
                  ELSE ErrExitCode]

\* the stderr contents and the exit codes the model delivers
Stderrs ==
  { Stderr(si, b, u, e, h, t) :
      si \in BOOLEAN, b \in BOOLEAN, u \in BOOLEAN,
      e \in {"none", "bare", "text"}, h \in BOOLEAN, t \in BOOLEAN }
ExitCodes == {0, 1}

\* the errors an attempt of downloadAudio can reject with
AudioErrors == {CloseHandler(1, e).error : e \in Stderrs} \cup {ErrSpawn}

\* AudioDownloaded throwing the error of the first attempt
AudioDownloaded_ThrowsFirst(s, fs, r, failed, error) ==
  LET s1 == [s EXCEPT !.procs = 0,
                      !.errors = IF failed THEN Append(@, error) ELSE @]
  IN IF failed
     THEN IF s.attempt = MaxRetries
          THEN SendError([s1 EXCEPT !.rejected = Head(s1.errors)], 500,
                         "Failed to process audio")
          ELSE [s1 EXCEPT !.pc = "au_sleep", !.attempt = @ + 1]
     ELSE IF ~Exists(fs, Mp3Path(s))
          THEN SendError(s1, 500, "Failed to download audio")
          ELSE [s1 EXCEPT !.pc = "au_stream", !.response.status = 200,
                          !.foreignUse = @ \/ Foreign(fs, Mp3Path(s), r)]

\* downloadAudioWithRetry and the handler after a yt-dlp download has exited,
\* on the files fs the download left: after a failure the next attempt waits
\* for its sleep, or the last error is thrown into the catch of the handler;
\* after a success the mp3 is piped into the response
AudioDownloaded(s, fs, r, failed, error) ==
  LET s1 == [s EXCEPT !.procs = 0,
                      !.errors = IF failed THEN Append(@, error) ELSE @]
  IN IF failed
     THEN IF s.attempt = MaxRetries
          THEN SendError([s1 EXCEPT !.rejected = error], 500, "Failed to process audio")
          ELSE [s1 EXCEPT !.pc = "au_sleep", !.attempt = @ + 1]
     ELSE IF ~Exists(fs, Mp3Path(s))
          THEN SendError(s1, 500, "Failed to download audio")
          ELSE [s1 EXCEPT !.pc = "au_stream", !.response.status = 200,
                          !.foreignUse = @ \/ Foreign(fs, Mp3Path(s), r)]

\* an attempt of downloadAudio settles: yt-dlp has exited, or could not be
\* spawned, with one of the errors errs when it failed
AudioDownloadExit(r, errs) ==
  /\ rq[r].pc = "au_download"
  /\ \E failed \in BOOLEAN, written \in BOOLEAN :
     \E error \in (IF failed THEN errs ELSE {"none"}) :
       /\ ~(failed /\ written)
       /\ LET fs == IF written THEN WriteFile(files, Mp3Path(rq[r]), Mp3Content, r) ELSE files
          IN /\ rq' = [rq EXCEPT ![r] =
                         [AudioDownloaded(rq[r], fs, r, failed, error) EXCEPT !.foreignUse =
                            @ \/ (written /\ Foreign(files, Mp3Path(rq[r]), r))]]
             /\ files' = fs
  /\ UNCHANGED <<now, job>>

\* the sleep before a retry is over: the next download attempt starts
AudioRetry(s) ==
  [s EXCEPT !.pc = "au_download", !.procs = 1, !.issued = Append(@, "download")]

AudioSleepDone(r) ==
  /\ rq[r].pc = "au_sleep"
  /\ rq' = [rq EXCEPT ![r] = AudioRetry(rq[r])]
  /\ UNCHANGED <<files, now, job>>

\* the handler after streamPipeline has settled: outcome is "ok" (the mp3
\* went out, the file is deleted), "failEarly" (the pipeline failed before
\* the headers went out) or "failMid" (it failed after).  In the catch,
\* res.status(500).json throws once the headers have gone out.
\* The result is <<request, files>>.
AudioStreamed(s, fs, r, outcome) ==
  IF outcome = "failEarly" THEN <<SendError(s, 500, "Failed to process audio"), fs>>
  ELSE IF outcome = "failMid"
  THEN <<[s EXCEPT !.streamed = "partial", !.sent = @ + 1, !.escaped = TRUE, !.pc = "done"], fs>>
  ELSE LET s1 == [s EXCEPT !.streamed = "full", !.sent = @ + 1, !.pc = "done"]
       IN IF Exists(fs, Mp3Path(s))
          THEN <<[s1 EXCEPT !.foreignUse = @ \/ Foreign(fs, Mp3Path(s), r)],
                 Unlink(fs, Mp3Path(s))>>
          ELSE <<[s1 EXCEPT !.escaped = TRUE], fs>>

AudioStreamDone(r) ==
  /\ rq[r].pc = "au_stream"
  /\ \E outcome \in {"ok", "failEarly", "failMid"} :
       LET out == AudioStreamed(rq[r], files, r, outcome)
       IN /\ rq' = [rq EXCEPT ![r] = out[1]]
          /\ files' = out[2]
  /\ UNCHANGED <<now, job>>

\* time passes
Tick ==
  /\ now < MaxTick
  /\ now' = now + 1
  /\ UNCHANGED <<rq, files, job>>

\* the tracks, track lists and video descriptions the model delivers
Tracks ==
  { Track("ja", FALSE, TRUE, FALSE),
    Track("ja", TRUE, TRUE, TRUE),
    Track("ja-JP", FALSE, TRUE, FALSE),
    Track("en", FALSE, FALSE, FALSE) }

TrackLists(n) == SeqsUpTo(Tracks, n)

Langs == {"ja", "ja-JP", "en"}
VideoInfos == {VideoInfoJson(subs, auto) : subs \in SUBSET Langs, auto \in SUBSET Langs}

\* ------------------------------------------------------------------------
\* The orchestrator specification: one request runs through the stages
\* ------------------------------------------------------------------------
Init ==
  /\ rq = [r \in 1..NReq |-> Idle]
  /\ files = EmptyMap
  /\ now = 0
  /\ job = NoJob

Next ==
  \/ ExtractYoutubeContent(1, Urls, BOOLEAN)
  \/ TimedTextManualReply(1, CapDatas(MaxElems))
  \/ TimedTextAutoReply(1, CapDatas(MaxElems))
  \/ VideoInfoReply(1, TrackLists(MaxElems))
  \/ CaptionBodyReply(1, CapDatas(MaxElems))
  \/ YtDlpInfoExit(1, VideoInfos)
  \/ YtDlpSubsExit(1, VttFiles(MaxElems))
  \/ Tick

Spec == Init /\ [][Next]_vars

\* ------------------------------------------------------------------------
\* Properties of the orchestrator
\* ------------------------------------------------------------------------
OrchReqs == {r \in DOMAIN rq : rq[r].endpoint = "content"}

\* the request has received its 200 response
Answered(r) == rq[r].sent > 0 /\ rq[r].response.status = 200

\* the stage has finished and delivered a non-empty transcript
Produced(r, stage) ==
  stage \in DOMAIN rq[r].produced /\ rq[r].produced[stage] # <<>>

\* the stage has finished without a non-empty transcript
CameUpEmpty(r, stage) ==
  stage \in DOMAIN rq[r].produced /\ rq[r].produced[stage] = <<>>

\* the adapters invoked so far
Invoked(r) == {rq[r].calls[i] : i \in 1..Len(rq[r].calls)}

\* the stage is invoked before position i of calls
InvokedBefore(r, stage, i) == \E j \in 1..(i - 1) : rq[r].calls[j] = stage

\* the stages in their order, with the method name each reports
StageOrder == <<"timedtext", "youtubeApi", "ytDlpSubtitles">>
MethodName == <<"timedtext", "youtube-api", "yt-dlp-subtitles">>

\* C1: with preferCaptions = true, once the timed-text stage has delivered a
\* non-empty transcript the handler has responded with success = true and
\* method = "timedtext", and neither tryYouTubeAPI nor
\* extractSubtitlesWithYtDlp has been invoked for the request.
C1_TimedTextShortCircuits ==
  \A r \in OrchReqs :
    (rq[r].preferCaptions /\ Produced(r, "timedtext")) =>
      /\ rq[r].pc = "done"
      /\ rq[r].sent = 1
      /\ rq[r].response.status = 200
      /\ rq[r].response.success = "true"
      /\ rq[r].response.method = "timedtext"
      /\ rq[r].calls = <<"timedtext">>

C1_Witness ==
  \E r \in OrchReqs :
    /\ rq[r].preferCaptions
    /\ Produced(r, "timedtext")
    /\ rq[r].sent = 1
    /\ rq[r].response.method = "timedtext"

\* the adapters invoked after stage 1 (calls without a leading "timedtext")
AfterStage1(r) ==
  IF rq[r].calls # <<>> /\ rq[r].calls[1] = "timedtext"
  THEN Tail(rq[r].calls) ELSE rq[r].calls

\* C2 as stated: whenever stage 1 returns no result, because the timed-text
\* adapter came up empty or because preferCaptions = false, the page-metadata
\* adapter is the next adapter invoked, before the external-CLI adapter, and
\* a non-empty transcript from it gives method = "youtube-api".
C2_Original ==
  \A r \in OrchReqs :
    /\ AfterStage1(r) # <<>> => AfterStage1(r)[1] = "youtubeApi"
    /\ CameUpEmpty(r, "timedtext") => AfterStage1(r) # <<>>
    /\ Produced(r, "youtubeApi") =>
         (Answered(r) /\ rq[r].response.method = "youtube-api")

\* C2 amended: with preferCaptions = true, when the timed-text stage has
\* finished without a non-empty transcript the page-metadata adapter is the
\* next adapter invoked, before the external-CLI adapter, and a non-empty
\* transcript from it gives method = "youtube-api"; with preferCaptions =
\* false the page-metadata adapter is not invoked at all and the external-CLI
\* adapter is the first adapter invoked.
C2_PageMetadataSecond ==
  \A r \in OrchReqs :
    /\ rq[r].preferCaptions =>
         /\ CameUpEmpty(r, "timedtext") =>
              (Len(rq[r].calls) >= 2 /\ rq[r].calls[2] = "youtubeApi")
         /\ \A i \in 1..Len(rq[r].calls) :
              rq[r].calls[i] = "ytDlpSubtitles" => InvokedBefore(r, "youtubeApi", i)
         /\ Produced(r, "youtubeApi") =>
              (Answered(r) /\ rq[r].response.success = "true"
                 /\ rq[r].response.method = "youtube-api")
    /\ ~rq[r].preferCaptions =>
         /\ "youtubeApi" \notin Invoked(r)
         /\ "timedtext" \notin Invoked(r)
         /\ rq[r].calls # <<>> => rq[r].calls[1] = "ytDlpSubtitles"

C2_Witness ==
  \E r \in OrchReqs :
    /\ rq[r].preferCaptions
    /\ CameUpEmpty(r, "timedtext")
    /\ Produced(r, "youtubeApi")
    /\ rq[r].response.method = "youtube-api"

\* C3: extractSubtitlesWithYtDlp is invoked only after every stage invoked
\* before it has finished without a non-empty transcript; a non-empty
\* transcript from it gives success = true and method = "yt-dlp-subtitles".
C3_ExternalCliLast ==
  \A r \in OrchReqs :
    /\ \A i \in 1..Len(rq[r].calls) :
         rq[r].calls[i] = "ytDlpSubtitles" =>
           \A j \in 1..(i - 1) :
             /\ CameUpEmpty(r, rq[r].calls[j])
             /\ rq[r].calls[j] \notin rq[r].inflight
    /\ Produced(r, "ytDlpSubtitles") =>
         /\ Answered(r)
         /\ rq[r].response.success = "true"
         /\ rq[r].response.method = "yt-dlp-subtitles"

C3_Witness ==
  \E r \in OrchReqs :
    /\ rq[r].calls = <<"timedtext", "youtubeApi", "ytDlpSubtitles">>
    /\ Produced(r, "ytDlpSubtitles")
    /\ rq[r].response.method = "yt-dlp-subtitles"

\* C4: a 200 response of the orchestrator has success = false and
\* audioExtractionAvailable = true exactly when no caption stage delivered a
\* non-empty transcript, and audioExtractionAvailable is never set on a
\* success response.
C4_AudioFallbackIff ==
  \A r \in OrchReqs :
    Answered(r) =>
      /\ (rq[r].response.success = "false" /\ rq[r].response.audioExtractionAvailable = "true")
           <=> (\A k \in 1..3 : ~Produced(r, StageOrder[k]))
      /\ rq[r].response.success = "true" => rq[r].response.audioExtractionAvailable = "unset"
      /\ rq[r].response.success \in {"true", "false"}

C4_Witness ==
  \E r \in OrchReqs :
    /\ Answered(r)
    /\ rq[r].response.success = "false"
    /\ rq[r].response.audioExtractionAvailable = "true"
    /\ DOMAIN rq[r].produced = {"timedtext", "youtubeApi", "ytDlpSubtitles"}

\* C5: a success response carries a non-empty transcript that is exactly the
\* transcript delivered by the stage named in method, and no stage earlier in
\* the order timedtext, youtube-api, yt-dlp-subtitles delivered a non-empty
\* transcript.
C5_TranscriptOfFirstStage ==
  \A r \in OrchReqs :
    (Answered(r) /\ rq[r].response.success = "true") =>
      \E k \in 1..3 :
        /\ rq[r].response.method = MethodName[k]
        /\ Produced(r, StageOrder[k])
        /\ rq[r].response.transcript = rq[r].produced[StageOrder[k]]
        /\ rq[r].response.transcript # <<>>
        /\ \A j \in 1..(k - 1) : ~Produced(r, StageOrder[j])

C5_Witness ==
  \E r \in OrchReqs :
    /\ Answered(r)
    /\ CameUpEmpty(r, "timedtext")
    /\ rq[r].response.method = "youtube-api"
    /\ Len(rq[r].response.transcript) = 2
    /\ rq[r].response.transcript = rq[r].produced["youtubeApi"]

\* C6: in a 200 response the methods map has an entry for exactly the stages
\* that were attempted: {success: true, transcriptCount} for the stage that
\* succeeded, {success: false, error} for every other attempted stage.
C6_DiagnosticsPerStage ==
  \A r \in OrchReqs :
    Answered(r) =>
      /\ DOMAIN rq[r].response.methods = Invoked(r)
      /\ \A k \in 1..3 :
           StageOrder[k] \in Invoked(r) =>
             LET d == rq[r].response.methods[StageOrder[k]]
             IN IF rq[r].response.success = "true" /\ rq[r].response.method = MethodName[k]
                THEN d = DiagOk(Len(rq[r].produced[StageOrder[k]]))
                ELSE ~d.success /\ d.error # "unset" /\ d.transcriptCount = Absent

C6_Witness ==
  \E r \in OrchReqs :
    /\ Answered(r)
    /\ rq[r].response.success = "true"
    /\ rq[r].response.method = "yt-dlp-subtitles"
    /\ DOMAIN rq[r].response.methods = {"timedtext", "youtubeApi", "ytDlpSubtitles"}

\* the url passed the validation of the handler
PassedValidation(url) == ~Falsy(url) /\ isValidYouTubeUrl(url)

\* C7 as stated: for every request whose url passed validation no exception
\* escapes the handler, and the handler ends with one JSON response that
\* carries a success flag.
C7_Original ==
  \A r \in OrchReqs :
    PassedValidation(rq[r].url) =>
      /\ ~rq[r].escaped
      /\ rq[r].pc = "done" =>
           (rq[r].sent = 1 /\ rq[r].response.success \in {"true", "false"})

\* C7 amended: for every request whose url is a string that passed
\* validation, and every combination of adapter outcomes, no exception
\* escapes the handler, and the handler ends with one JSON response that
\* carries a success flag.
C7_StructuredResult ==
  \A r \in OrchReqs :
    (rq[r].url.type = "string" /\ PassedValidation(rq[r].url)) =>
      /\ ~rq[r].escaped
      /\ rq[r].pc = "done" =>
           /\ rq[r].sent = 1
           /\ rq[r].response.status = 200
           /\ rq[r].response.success \in {"true", "false"}

C7_Witness ==
  \E r \in OrchReqs :
    /\ rq[r].url.type = "string"
    /\ PassedValidation(rq[r].url)
    /\ rq[r].pc = "done"
    /\ rq[r].response.success = "false"
    /\ rq[r].response.methods["ytDlpSubtitles"].error = "Command failed"

\* C8: within one request at most one caption adapter is in flight, it is the
\* one invoked last, every adapter invoked before it has finished, and an
\* external process of the request runs only inside the external-CLI stage.
C8_SequentialChain ==
  \A r \in OrchReqs :
    /\ Cardinality(rq[r].inflight) <= 1
    /\ rq[r].inflight # {} => rq[r].inflight = {rq[r].calls[Len(rq[r].calls)]}
    /\ \A i \in 1..(Len(rq[r].calls) - 1) :
         /\ rq[r].calls[i] \in DOMAIN rq[r].produced
         /\ rq[r].calls[i] \notin rq[r].inflight
    /\ rq[r].procs > 0 => rq[r].inflight = {"ytDlpSubtitles"}
    /\ rq[r].pc = "done" => (rq[r].inflight = {} /\ rq[r].procs = 0)

C8_Witness ==
  \E r \in OrchReqs :
    /\ rq[r].calls = <<"timedtext", "youtubeApi", "ytDlpSubtitles">>
    /\ rq[r].inflight = {"ytDlpSubtitles"}
    /\ rq[r].pc = "yt_subs"
    /\ rq[r].procs = 1

\* ------------------------------------------------------------------------
\* The temporary-file specification: NReq concurrent requests to the handlers
\* that keep temporary files
\* ------------------------------------------------------------------------
FileUrls ==
  { StrUrl(L_youtu_be \o <<"a","b">>),
    StrUrl(L_youtu_be \o <<"a","\"",";","i","d",";","\"">>) }

FileTrackLists == {<<>>, <<Track("ja", FALSE, TRUE, FALSE)>>}
FileCapDatas == {CapString(TRUE, <<Elem(TRUE, 0, 5000, "a")>>)}
FileVideoInfos == {VideoInfoJson({"ja"}, {}), VideoInfoJson({}, {})}
FileVtts == {<<VttLine("timing", <<0, 0, 1000>>, <<0, 0, 3000>>, ""),
               VttLine("text", <<>>, <<>>, "a")>>}
FileJson3s == {FileContent("json3", TRUE, <<Json3Event(TRUE, "a", 1000, Absent)>>),
               FileContent("json3", FALSE, <<>>)}

FileWhisperDatas ==
  { WhisperData(TRUE, <<WhisperSegment("a", 0, 1000)>>, TRUE, "a"),
    WhisperData(FALSE, <<>>, TRUE, "a"),
    WhisperData(FALSE, <<>>, FALSE, "") }

NextFiles ==
  \/ \E r \in 1..NReq : ExtractYoutubeContent(r, FileUrls, {FALSE})
  \/ \E r \in 1..NReq : YtDlpInfoExit(r, FileVideoInfos)
  \/ \E r \in 1..NReq : YtDlpSubsExit(r, FileVtts)
  \/ \E r \in 1..NReq : ExtractYoutubeSubtitles(r, FileUrls)
  \/ \E r \in 1..NReq : VideoInfoReply(r, FileTrackLists)
  \/ \E r \in 1..NReq : CaptionBodyReply(r, FileCapDatas)
  \/ \E r \in 1..NReq : SubtitlesInfoExit(r, FileVideoInfos)
  \/ \E r \in 1..NReq : SubtitlesJson3Exit(r, FileJson3s)
  \/ \E r \in 1..NReq : SubtitlesVttExit(r, FileVtts)
  \/ \E r \in 1..NReq : TranscribeAudio(r, {"unset"})
  \/ \E r \in 1..NReq : TranscribeGetReply(r)
  \/ \E r \in 1..NReq : TranscribeWriterDone(r)
  \/ \E r \in 1..NReq : TranscribeWhisperReply(r, FileWhisperDatas)
  \/ \E r \in 1..NReq : ExtractAudio(r, FileUrls)
  \/ \E r \in 1..NReq : AudioDownloadExit(r, {ErrExitCode})
  \/ \E r \in 1..NReq : AudioSleepDone(r)
  \/ \E r \in 1..NReq : AudioStreamDone(r)
  \/ Tick

SpecFiles == Init /\ [][NextFiles]_vars

\* ------------------------------------------------------------------------
\* Properties of the temporary files
\* ------------------------------------------------------------------------
\* the handler of the request has finished
Finished(r) == rq[r].pc = "done"

\* the handler of the request is running
Active(r) == rq[r].pc \notin {"idle", "done"}

\* the files on disk that were last written for request r
FilesOf(r) == {p \in DOMAIN files : files[p].writer = r}

\* C9: once the handler of a request has finished, on any exit path, no
\* temporary file created for that request remains on disk.
C9_NoTempFileRemains ==
  \A r \in DOMAIN rq : Finished(r) => FilesOf(r) = {}

\* the directory and name the request derives from Date.now():
\* downloads/subs_<ts>, downloads/audio_<ts>, temp/audio_<ts>
OutputPath(r) ==
  [ dir |-> IF rq[r].endpoint = "transcribe" THEN "temp" ELSE "downloads",
    base |-> IF rq[r].endpoint \in {"content", "subtitles"} THEN "subs" ELSE "audio",
    ts |-> rq[r].outputPath ]

\* C10: under any interleaving, no two requests in progress use the same
\* temporary file path, and no request reads, overwrites or deletes a file
\* written for another request.
C10_DistinctTempPaths ==
  /\ \A r1, r2 \in DOMAIN rq :
       ( /\ r1 # r2
         /\ Active(r1) /\ Active(r2)
         /\ rq[r1].outputPath # Absent /\ rq[r2].outputPath # Absent )
       => OutputPath(r1) # OutputPath(r2)
  /\ \A r \in DOMAIN rq : ~rq[r].foreignUse

\* ------------------------------------------------------------------------
\* The pair specification: NReq requests run through the orchestrator, so
\* that the outcomes of two runs can be compared
\* ------------------------------------------------------------------------
PairUrls == {StrUrl(L_youtu_be \o <<"a","b">>)}
PairCapDatas == {CapString(TRUE, <<>>), CapString(TRUE, <<Elem(TRUE, 0, 5000, "a")>>)}

NextPair ==
  \/ \E r \in 1..NReq : ExtractYoutubeContent(r, PairUrls, BOOLEAN)
  \/ \E r \in 1..NReq : TimedTextManualReply(r, PairCapDatas)
  \/ \E r \in 1..NReq : TimedTextAutoReply(r, PairCapDatas)
  \/ \E r \in 1..NReq : VideoInfoReply(r, FileTrackLists)
  \/ \E r \in 1..NReq : CaptionBodyReply(r, PairCapDatas)
  \/ \E r \in 1..NReq : YtDlpInfoExit(r, FileVideoInfos)
  \/ \E r \in 1..NReq : YtDlpSubsExit(r, FileVtts)

SpecPair == Init /\ [][NextPair]_vars

\* the adapter of the stage has returned to the orchestrator of request r
Returned(r, stage) == stage \in DOMAIN rq[r].returned

\* inside the adapter of the stage, for request r, only w happened
Only(r, stage, w) == stage \in DOMAIN rq[r].why /\ rq[r].why[stage] = {w}

\* C11: for each caption adapter, a run in which the source was reached and
\* has no captions and a run in which the method failed (a request or command
\* failed, a payload could not be read) differ in the value the adapter
\* returns and in the diagnostic entry the orchestrator records for the stage.
C11_FailureDistinguishable ==
  \A r1, r2 \in OrchReqs :
    \A k \in 1..3 :
      LET stage == StageOrder[k]
      IN ( /\ Returned(r1, stage) /\ Returned(r2, stage)
           /\ Only(r1, stage, "noCaptions")
           /\ Only(r2, stage, "failed") )
         => /\ rq[r1].returned[stage] # rq[r2].returned[stage]
            /\ rq[r1].response.methods[stage] # rq[r2].response.methods[stage]

\* ------------------------------------------------------------------------
\* The pure-function specification: one call of a parser, of the identifier
\* extractor, of the url validation or of a track selection, on an argument
\* drawn from a bounded set
\* ------------------------------------------------------------------------
\* longest caption document (elements, events) handed to a parser
MaxItems == 3
\* longest WebVTT file (lines) handed to parseVTTToTranscript
MaxLines == 4

PureElems ==
  Elems \cup { Elem(TRUE, 4000, 1000, "d"), Elem(TRUE, 1000, -2000, "e") }

PureCapDatas ==
  {CapObject} \cup {CapString(x, es) : x \in BOOLEAN, es \in SeqsUpTo(PureElems, MaxItems)}

PureVttLines ==
  VttLines \cup { VttLine("timing", <<0, 0, 3000>>, <<0, 0, 1000>>, ""),
                  VttLine("text", <<>>, <<>>, "b") }

PureVttFiles == SeqsUpTo(PureVttLines, MaxLines)

Json3Events ==
  { Json3Event(TRUE, "a", 1000, Absent),
    Json3Event(TRUE, "b", 0, 2000),
    Json3Event(TRUE, "c", 3000, 0),
    Json3Event(TRUE, "d", 2000, -4000),
    Json3Event(TRUE, "\n", 1000, 1000),
    Json3Event(TRUE, "", 1000, 1000),
    Json3Event(FALSE, "", 500, 1000) }

PureJson3s ==
  {FileContent("json3", FALSE, <<>>)}
  \cup {FileContent("json3", TRUE, es) : es \in SeqsUpTo(Json3Events, MaxItems)}

Job(fn, arg) == [fn |-> fn, arg |-> arg, out |-> <<>>, done |-> FALSE]

ParserJobs ==
  {Job("parseCaptionData", [captionData |-> c, format |-> f]) :
     c \in PureCapDatas, f \in {"timedtext", "srv3"}}
  \cup {Job("parseVTTToTranscript", v) : v \in PureVttFiles}
  \cup {Job("json3", j) : j \in PureJson3s}

\* the function of the job returns (or throws)
Finish(out) == job' = [job EXCEPT !.out = out, !.done = TRUE]

CallParseCaptionData ==
  /\ job.fn = "parseCaptionData" /\ ~job.done
  /\ Finish([threw |-> FALSE,
             transcript |-> parseCaptionData(job.arg.captionData, job.arg.format)])
  /\ UNCHANGED <<rq, files, now>>

CallParseVTTToTranscript ==
  /\ job.fn = "parseVTTToTranscript" /\ ~job.done
  /\ Finish([threw |-> FALSE, transcript |-> parseVTTToTranscript(job.arg)])
  /\ UNCHANGED <<rq, files, now>>

CallJson3Parse ==
  /\ job.fn = "json3" /\ ~job.done
  /\ Finish(Json3Parse(job.arg))
  /\ UNCHANGED <<rq, files, now>>

\* the url forms extractVideoId supports, each with a query string that may
\* follow the identifier
UrlForms ==
  { [name |-> "watch", prefix |-> L_https \o L_www \o L_youtube \o L_watch,
     query |-> <<"&","l","i","s","t","=","l">>],
    [name |-> "short", prefix |-> L_https \o L_youtu_be,
     query |-> <<"?","t","=","1","0">>],
    [name |-> "embed", prefix |-> L_https \o L_www \o L_youtube \o L_embed,
     query |-> <<"?","s","t","a","r","t","=","5">>] }

VideoIds == {<<"a","b">>, <<"x","-","1","_","y">>}

\* strings that match none of the forms
NoFormStrings ==
  { <<>>, <<"a","b","c">>, L_https \o L_www \o L_youtube \o <<"a","b">>,
    L_youtube \o L_watch \o <<"&">>, L_https \o L_youtu_be }

\* arg of an extractVideoId job: the url, the identifier it was built from
\* (<<>> for a string of no form), the form and whether a query follows
IdJobs ==
  {Job("extractVideoId",
       [url |-> StrUrl(f.prefix \o id \o (IF q THEN f.query ELSE <<>>)),
        id |-> id, form |-> f.name, query |-> q]) :
     f \in UrlForms, id \in VideoIds, q \in BOOLEAN}
  \cup {Job("extractVideoId",
            [url |-> StrUrl(cs), id |-> <<>>, form |-> "none", query |-> FALSE]) :
          cs \in NoFormStrings}

CallExtractVideoId ==
  /\ job.fn = "extractVideoId" /\ ~job.done
  /\ Finish(extractVideoId(job.arg.url))
  /\ UNCHANGED <<rq, files, now>>

TrackJobs ==
  {Job("captionTracks.find", ts) : ts \in SeqsUpTo(Tracks, MaxItems)}
  \cup {Job("selectedLang", v) : v \in VideoInfos}

CallFindJaTrack ==
  /\ job.fn = "captionTracks.find" /\ ~job.done
  /\ Finish(JaTrack(job.arg))
  /\ UNCHANGED <<rq, files, now>>

CallSelectLang ==
  /\ job.fn = "selectedLang" /\ ~job.done
  /\ Finish(SelectLang(job.arg))
  /\ UNCHANGED <<rq, files, now>>

\* the urls handed to the validation: an optional stray character, scheme
\* and www., a host with or without a path form, and what follows
UrlTails ==
  { <<>>, <<"a">>, <<"-","b">>, <<"&","a">>, <<"a","&","b">>, <<" ","a">>,
    <<"a","?","t","=","1">>, <<"a","\"",";">>, <<"/","a">> }

ValidationUrls ==
  { StrUrl(x \o sch \o w \o h \o t) :
      x \in {<<>>, <<"x">>}, sch \in {<<>>, L_http, L_https}, w \in {<<>>, L_www},
      h \in {L_youtube \o L_watch, L_youtube \o L_embed, L_youtube \o L_v,
              L_youtu_be, L_youtube},
      t \in UrlTails }
  \cup {NoUrl, ArrUrl(L_https \o L_youtu_be \o <<"a","b">>)}

ValidationJobs == {Job("validation", url) : url \in ValidationUrls}

CallValidateUrl ==
  /\ job.fn = "validation" /\ ~job.done
  /\ Finish([valid |-> isValidYouTubeUrl(job.arg),
             videoId |-> extractVideoId(job.arg),
             answer |-> ValidateUrl(job.arg)])
  /\ UNCHANGED <<rq, files, now>>

CloseJobs ==
  {Job("downloadAudio", [code |-> c, stderrData |-> e]) : c \in ExitCodes, e \in Stderrs}

CallCloseHandler ==
  /\ job.fn = "downloadAudio" /\ ~job.done
  /\ Finish(CloseHandler(job.arg.code, job.arg.stderrData))
  /\ UNCHANGED <<rq, files, now>>

InitPure ==
  /\ rq = [r \in 1..NReq |-> Idle]
  /\ files = EmptyMap
  /\ now = 0
  /\ job \in ParserJobs \cup IdJobs \cup TrackJobs \cup CloseJobs \cup ValidationJobs

NextPure ==
  \/ CallParseCaptionData
  \/ CallParseVTTToTranscript
  \/ CallJson3Parse
  \/ CallExtractVideoId
  \/ CallFindJaTrack
  \/ CallSelectLang
  \/ CallCloseHandler
  \/ CallValidateUrl

SpecPure == InitPure /\ [][NextPure]_vars

\* the job of the function fn has finished
Done(fn) == job.fn = fn /\ job.done

\* a parser has finished without throwing; job.out.transcript is its result
Parsed ==
  /\ job.fn \in {"parseCaptionData", "parseVTTToTranscript", "json3"}
  /\ job.done
  /\ ~job.out.threw

\* the strictly increasing maps from the positions of transcript to the
\* positions of source
Embeddings(transcript, source) ==
  {f \in [1..Len(transcript) -> 1..Len(source)] :
     \A i, j \in 1..Len(transcript) : i < j => f[i] < f[j]}

\* the segment carries the text and the start of the <text> element
FromElem(seg, e, format) ==
  /\ seg.text = (IF format = "timedtext" THEN DecodeEntities(e.text) ELSE e.text)
  /\ seg.startTime = (IF e.start = Absent THEN 0 ELSE e.start)

\* the segment carries the text and the start of the json3 event
FromEvent(seg, event) ==
  /\ event.segs
  /\ seg.text = event.text
  /\ seg.startTime = (IF event.tStartMs = Absent THEN 0 ELSE event.tStartMs)

\* segment i carries the text of the line at f[i] and the start of a timing
\* line that lies before it and after the line of segment i - 1
FromLines(transcript, lines, f, i) ==
  /\ lines[f[i]].kind = "text"
  /\ transcript[i].text = lines[f[i]].text
  /\ \E g \in 1..(f[i] - 1) :
       /\ i > 1 => g > f[i - 1]
       /\ lines[g].kind = "timing"
       /\ transcript[i].startTime = parseVTTTimestamp(lines[g].s)

\* the segments of the finished parser job come from entries of its source,
\* in the order of the source
InSourceOrder ==
  LET transcript == job.out.transcript
  IN IF job.fn = "parseCaptionData"
     THEN \E f \in Embeddings(transcript, job.arg.captionData.elems) :
            \A i \in 1..Len(transcript) :
              FromElem(transcript[i], job.arg.captionData.elems[f[i]], job.arg.format)
     ELSE IF job.fn = "json3"
     THEN \E f \in Embeddings(transcript, job.arg.body) :
            \A i \in 1..Len(transcript) : FromEvent(transcript[i], job.arg.body[f[i]])
     ELSE \E f \in Embeddings(transcript, job.arg) :
            \A i \in 1..Len(transcript) : FromLines(transcript, job.arg, f, i)

\* C12: every transcript a parser returns (timed-text regex parser, caption
\* track XML parser, parseVTTToTranscript, inline JSON event parser) has the
\* ids 1, 2, ..., n in emission order, and its segments come from entries of
\* the source in source order, also when source entries are skipped.
C12_IdsContiguous ==
  Parsed =>
    /\ \A i \in 1..Len(job.out.transcript) : job.out.transcript[i].id = i
    /\ InSourceOrder

\* the entries of the source that left no segment
Skipped == Len(IF job.fn = "parseCaptionData" THEN job.arg.captionData.elems
               ELSE IF job.fn = "json3" THEN job.arg.body ELSE job.arg)
           - Len(job.out.transcript)

\* an event without segs between two events that leave a segment
C12_Witness ==
  /\ Parsed
  /\ job.fn = "json3"
  /\ Len(job.arg.body) = 3
  /\ ~job.arg.body[2].segs
  /\ Skipped = 1
  /\ job.out.transcript[2].id = 2
  /\ job.out.transcript[2].text = job.arg.body[3].text

\* C13: every segment a parser produces has endTime >= startTime, for every
\* input: also for WebVTT cues whose end timestamp is earlier than the start
\* or is not parseable (cue settings after the end timestamp), and for JSON
\* events or XML elements that carry a negative duration.
C13_EndNotBeforeStart ==
  Parsed =>
    \A i \in 1..Len(job.out.transcript) :
      job.out.transcript[i].endTime >= job.out.transcript[i].startTime

\* the argument of the parser job is one the parser cannot interpret:
\* caption data that is not a string, a caption-track document that is
\* malformed or has a <text> element without attributes, a subtitle file that
\* is not valid JSON, a WebVTT file without a cue
Uninterpretable ==
  IF job.fn = "parseCaptionData"
  THEN \/ job.arg.captionData.type # "string"
       \/ /\ job.arg.format = "srv3"
          /\ \/ ~job.arg.captionData.xml
             \/ \E k \in 1..Len(job.arg.captionData.elems) :
                  ~job.arg.captionData.elems[k].attrs
  ELSE IF job.fn = "json3" THEN ~job.arg.valid
  ELSE \A k \in 1..Len(job.arg) : job.arg[k].kind # "timing"

\* C14: a parser that is handed an input it cannot interpret returns an empty
\* transcript and throws no exception.
C14_UninterpretableIsEmpty ==
  ( /\ job.fn \in {"parseCaptionData", "parseVTTToTranscript", "json3"}
    /\ job.done
    /\ Uninterpretable )
  => /\ ~job.out.threw
     /\ job.out.transcript = <<>>

\* C15: for every video identifier, extractVideoId returns exactly that
\* identifier from each supported url form (watch?v=ID, youtu.be/ID,
\* embed/ID), also when a query string follows the identifier; for a string
\* of no form it returns null, and it does not throw.
C15_SameIdentifier ==
  Done("extractVideoId") =>
    IF job.arg.id # <<>> THEN job.out = IdOf(job.arg.id) ELSE job.out = IdNull

\* the commands that run through exec with the url interpolated into the
\* command line: yt-dlp --dump-json and the two yt-dlp --write-subs
ShellCommands == {"dump-json", "subs-json3", "subs-vtt"}

\* the url of request r has been put on a shell command line
ReachedShell(r) ==
  \E i \in 1..Len(rq[r].issued) : rq[r].issued[i] \in ShellCommands

\* C16: in every handler, a url that has reached a shell command line built by
\* string interpolation has passed isValidYouTubeUrl, and consists of the
\* validated YouTube url pattern only: no character follows it (no quote, no
\* shell metacharacter).
C16_NoCommandInjection ==
  \A r \in DOMAIN rq :
    ReachedShell(r) =>
      /\ PassedValidation(rq[r].url)
      /\ MatchedLen(rq[r].url) = Len(ToStr(rq[r].url))

\* the requests to POST /extract-audio whose yt-dlp download process has been
\* spawned and has not exited
Downloading == {r \in DOMAIN rq : rq[r].endpoint = "audio" /\ rq[r].procs > 0}

\* C17: under any interleaving of concurrent POST /extract-audio requests, at
\* most one yt-dlp download process started by the server is running.
C17_OneDownloadAtATime == Cardinality(Downloading) <= 1

\* ------------------------------------------------------------------------
\* Properties of the caption adapters
\* ------------------------------------------------------------------------
\* the entries of the log issued of request r that are in kinds, in order
IssuedOf(r, kinds) == SelectSeq(rq[r].issued, LAMBDA c : c \in kinds)

\* the lookups tryTimedText has made for request r
Lookups(r) == IssuedOf(r, {"manual", "asr"})

\* C18 as stated: whenever the manual-caption lookup of tryTimedText yields no
\* captions (empty body, body without <text, or a failed request) the kind=asr
\* lookup is issued before the adapter reports not-found; the result has
\* isAutoGenerated = true exactly when the captions came from the second
\* lookup; at most two lookups are made.
C18_Original ==
  \A r \in OrchReqs :
    /\ Lookups(r) \in {<<>>, <<"manual">>, <<"manual", "asr">>}
    /\ Returned(r, "timedtext") =>
         /\ rq[r].returned["timedtext"].kind = "null" => Lookups(r) = <<"manual", "asr">>
         /\ rq[r].returned["timedtext"].kind = "ok" =>
              (rq[r].returned["timedtext"].isAutoGenerated
                 <=> Lookups(r) = <<"manual", "asr">>)

\* C18 amended: whenever the manual-caption lookup answers without captions
\* (empty body or body without <text) the kind=asr lookup is issued before
\* the adapter reports not-found, and not-found is reported without the asr
\* lookup only when the manual request failed or its body could not be read;
\* the result has isAutoGenerated = true exactly when the captions came from
\* the second lookup; at most two lookups are made, the manual one first.
C18_AsrAfterEmptyManual ==
  \A r \in OrchReqs :
    /\ Lookups(r) \in {<<>>, <<"manual">>, <<"manual", "asr">>}
    /\ Returned(r, "timedtext") =>
         /\ rq[r].returned["timedtext"].kind = "null" =>
              \/ Lookups(r) = <<"manual", "asr">>
              \/ Lookups(r) = <<"manual">> /\ Only(r, "timedtext", "failed")
         /\ Only(r, "timedtext", "noCaptions") => Lookups(r) = <<"manual", "asr">>
         /\ rq[r].returned["timedtext"].kind = "ok" =>
              (rq[r].returned["timedtext"].isAutoGenerated
                 <=> Lookups(r) = <<"manual", "asr">>)

C18_Witness ==
  \E r \in OrchReqs :
    /\ Returned(r, "timedtext")
    /\ rq[r].returned["timedtext"].kind = "ok"
    /\ rq[r].returned["timedtext"].isAutoGenerated
    /\ Lookups(r) = <<"manual", "asr">>

\* the metadata requests tryYouTubeAPI has made for request r, and all its
\* requests (metadata and track body)
Variants(r) == IssuedOf(r, {"get_video_info", "get_video_info_embedded"})
ApiRequests(r) ==
  IssuedOf(r, {"get_video_info", "get_video_info_embedded", "baseUrl"})

\* the variants of the metadata endpoint in the order of the methods array
VariantOrder == <<"get_video_info", "get_video_info_embedded">>

\* C19: tryYouTubeAPI requests its metadata-endpoint variants in the fixed
\* order and never throws; a failure inside a variant (request error, missing
\* player_response, JSON parse error, no caption tracks, no Japanese track,
\* failure of the fetch of the track body) leads to the next variant; the first
\* variant that delivers a caption body ends the search; null is returned only
\* after every variant has been tried.
C19_VariantsInOrder ==
  \A r \in OrchReqs :
    "youtubeApi" \in Invoked(r) =>
      /\ ~rq[r].escaped
      /\ Variants(r) \in {SubSeq(VariantOrder, 1, n) : n \in 1..NumVariants}
      /\ \A i \in 1..Len(ApiRequests(r)) :
           ApiRequests(r)[i] = "baseUrl" => (i > 1 /\ ApiRequests(r)[i - 1] # "baseUrl")
      /\ ( "youtubeApi" \in DOMAIN rq[r].why
           /\ rq[r].why["youtubeApi"] \cap {"failed", "noCaptions"} # {} )
         => Len(Variants(r)) >= 2
      /\ ("youtubeApi" \in DOMAIN rq[r].why /\ "found" \in rq[r].why["youtubeApi"])
         => (Returned(r, "youtubeApi") /\ rq[r].returned["youtubeApi"].kind = "ok")
      /\ Returned(r, "youtubeApi") =>
           /\ rq[r].returned["youtubeApi"].kind = "null" =>
                (Variants(r) = VariantOrder /\ "found" \notin rq[r].why["youtubeApi"])
           /\ rq[r].returned["youtubeApi"].kind = "ok" =>
                ApiRequests(r)[Len(ApiRequests(r))] = "baseUrl"

C19_Witness ==
  \E r \in OrchReqs :
    /\ Returned(r, "youtubeApi")
    /\ rq[r].returned["youtubeApi"].kind = "ok"
    /\ ApiRequests(r) =
         <<"get_video_info", "baseUrl", "get_video_info_embedded", "baseUrl">>

\* the caption track is auto-generated: kind is 'asr' or vssId has '.a.'
IsAuto(track) == track.asr \/ track.vssA

\* captionTracks.find has selected a track that is not auto-generated while a
\* manual track of its language code is available, that is not 'ja-JP' while
\* a 'ja' track of its kind is available, and isAutoGenerated says what it is
FindRespectsPolicy(captionTracks, out) ==
  LET selected == captionTracks[out.index]
      others == {captionTracks[k] : k \in 1..Len(captionTracks)}
  IN out.index # 0 =>
       /\ IsAuto(selected) =>
            ~\E t \in others : t.languageCode = selected.languageCode /\ ~IsAuto(t)
       /\ selected.languageCode = "ja-JP" =>
            ~\E t \in others : t.languageCode = "ja" /\ IsAuto(t) = IsAuto(selected)
       /\ out.isAutoGenerated <=> IsAuto(selected)

\* the same for the selection among subtitles and automatic_captions of the
\* yt-dlp paths; out is <<selectedLang, isAutoGenerated>>
SelectRespectsPolicy(videoInfo, out) ==
  out[1] # "none" =>
    /\ out[2] => out[1] \notin videoInfo.subtitles
    /\ out[1] = "ja-JP" =>
         "ja" \notin (IF out[2] THEN videoInfo.automaticCaptions ELSE videoInfo.subtitles)
    /\ out[2] <=> (out[1] \notin videoInfo.subtitles /\ out[1] \in videoInfo.automaticCaptions)
    /\ ~out[2] => out[1] \in videoInfo.subtitles

\* C20: wherever a method picks among the available Japanese caption tracks
\* (captionTracks.find in tryYouTubeAPI, subtitles / automatic_captions in the
\* yt-dlp paths), for every set and order of tracks the selected track is never
\* auto-generated when a manual track of the same language code is available,
\* never 'ja-JP' when a 'ja' track of the same kind is available, and
\* isAutoGenerated is true exactly when the selected track is auto-generated.
C20_SelectionPolicy ==
  /\ Done("captionTracks.find") => FindRespectsPolicy(job.arg, job.out)
  /\ Done("selectedLang") => SelectRespectsPolicy(job.arg, job.out)

\* ------------------------------------------------------------------------
\* Properties of the yt-dlp paths
\* ------------------------------------------------------------------------
\* the requests that run yt-dlp for subtitles
CliReqs == {r \in DOMAIN rq : rq[r].endpoint \in {"content", "subtitles"}}

\* the subtitle downloads request r has started, in order
SubsDownloads(r) == IssuedOf(r, {"subs-json3", "subs-vtt"})

\* a json3 subtitle file written for request r is on disk
HasJson3File(r) ==
  \E p \in DOMAIN files : p.ext = "json3" /\ files[p].writer = r

\* C21: both yt-dlp adapters (extractSubtitlesWithYtDlp and the one in
\* /extract-youtube-subtitles) run the subtitle download first for json3 and
\* a second time for vtt only when the first left no file: the downloads of a
\* request are none, json3, or json3 then vtt, never more than two, and the
\* vtt download runs only while no json3 file of the request exists.
C21_Json3ThenVtt ==
  \A r \in CliReqs :
    /\ SubsDownloads(r) \in {<<>>, <<"subs-json3">>, <<"subs-json3", "subs-vtt">>}
    /\ rq[r].pc \in {"yt_subs", "sub_vtt"} => ~HasJson3File(r)

\* ------------------------------------------------------------------------
\* The yt-dlp specification: one request runs through a handler that runs
\* yt-dlp for subtitles, the orchestrator with preferCaptions false or
\* /extract-youtube-subtitles
\* ------------------------------------------------------------------------
CliJson3s ==
  { FileContent("json3", TRUE, body) :
      body \in SeqsUpTo({Json3Event(TRUE, "a", 1000, Absent),
                         Json3Event(FALSE, "", 0, 2000)}, MaxElems) }
    \cup {FileContent("json3", FALSE, <<>>)}

NextCli ==
  \/ ExtractYoutubeContent(1, Urls, {FALSE})
  \/ YtDlpInfoExit(1, VideoInfos)
  \/ YtDlpSubsExit(1, VttFiles(MaxElems))
  \/ ExtractYoutubeSubtitles(1, Urls)
  \/ VideoInfoReply(1, TrackLists(MaxElems))
  \/ CaptionBodyReply(1, CapDatas(MaxElems))
  \/ SubtitlesInfoExit(1, VideoInfos)
  \/ SubtitlesJson3Exit(1, CliJson3s)
  \/ SubtitlesVttExit(1, VttFiles(MaxElems))
  \/ Tick

SpecCli == Init /\ [][NextCli]_vars

\* the video description of request r listed no Japanese captions
NoJapanese(r) ==
  /\ "ytDlpSubtitles" \in DOMAIN rq[r].why
  /\ "noCaptions" \in rq[r].why["ytDlpSubtitles"]

\* the first position of an entry of kinds in the log issued of request r,
\* 0 when there is none
FirstIssued(r, kinds) ==
  LET hits == {i \in 1..Len(rq[r].issued) : rq[r].issued[i] \in kinds}
  IN IF hits = {} THEN 0 ELSE CHOOSE i \in hits : \A j \in hits : i <= j

\* C22: on the yt-dlp paths the video description (yt-dlp --dump-json) has
\* been requested and has exited before a subtitle download is started, and
\* a download is started only for 'ja' or 'ja-JP'; when the description
\* lists neither, no download is started and no file is created,
\* extractSubtitlesWithYtDlp returns {success: false} and
\* /extract-youtube-subtitles responds 404.
C22_InfoBeforeDownload ==
  \A r \in CliReqs :
    /\ SubsDownloads(r) # <<>> =>
         /\ FirstIssued(r, {"dump-json"}) # 0
         /\ FirstIssued(r, {"dump-json"}) < FirstIssued(r, {"subs-json3", "subs-vtt"})
         /\ rq[r].pc \notin {"yt_info", "sub_info"}
         /\ rq[r].procs <= 1
         /\ rq[r].selectedLang \in {"ja", "ja-JP"}
    /\ NoJapanese(r) =>
         /\ SubsDownloads(r) = <<>>
         /\ FilesOf(r) = {}
         /\ rq[r].endpoint = "content" =>
              /\ Returned(r, "ytDlpSubtitles")
              /\ rq[r].returned["ytDlpSubtitles"] =
                   [success |-> FALSE, error |-> "No Japanese subtitles available"]
         /\ rq[r].endpoint = "subtitles" =>
              /\ Finished(r)
              /\ rq[r].response.status = 404

C22_Witness ==
  \E r \in CliReqs :
    /\ rq[r].endpoint = "subtitles"
    /\ NoJapanese(r)
    /\ rq[r].issued = <<"get_video_info", "get_video_info_embedded", "dump-json">>
    /\ rq[r].response.status = 404

\* ------------------------------------------------------------------------
\* Properties of the subtitle file parsers
\* ------------------------------------------------------------------------
\* the timing lines of a WebVTT file
TimingLines(lines) == {i \in 1..Len(lines) : lines[i].kind = "timing"}

\* the timing line that is pending at line i: the last timing line before i
\* with no caption text between it and i; 0 when no timing is pending
PendingAt(lines, i) ==
  LET open == {j \in TimingLines(lines) :
                 /\ j < i
                 /\ \A k \in (j + 1)..(i - 1) : lines[k].kind \notin {"timing", "text"}}
  IN IF open = {} THEN 0 ELSE CHOOSE j \in open : TRUE

\* the lines that close a segment: caption text met while a timing is pending
Closers(lines) ==
  {i \in 1..Len(lines) : lines[i].kind = "text" /\ PendingAt(lines, i) # 0}

\* C23: parseVTTToTranscript is a two-state scanner: a '-->' line sets the
\* pending start and end (a later timing line before any text overwrites
\* them), the next non-empty line that is neither a WEBVTT header nor a timing
\* line becomes the text of exactly one segment and clears the pending
\* timing, lines met with no pending timing produce no segment, and the
\* number of segments never exceeds the number of timing lines.
C23_VttScanner ==
  (Done("parseVTTToTranscript")) =>
    LET lines == job.arg
        transcript == job.out.transcript
        rank(i) == Cardinality({c \in Closers(lines) : c <= i})
    IN /\ Len(transcript) = Cardinality(Closers(lines))
       /\ Len(transcript) <= Cardinality(TimingLines(lines))
       /\ \A i \in Closers(lines) :
            transcript[rank(i)] =
              Segment(rank(i), lines[i].text,
                      parseVTTTimestamp(lines[PendingAt(lines, i)].s),
                      parseVTTTimestamp(lines[PendingAt(lines, i)].e))

\* a timing line overwritten by the next one, and a second line of text that
\* is met with no pending timing
C23_Witness ==
  /\ Done("parseVTTToTranscript")
  /\ Len(job.arg) = 4
  /\ job.arg[1].kind = "timing" /\ job.arg[2].kind = "timing"
  /\ job.arg[1] # job.arg[2]
  /\ job.arg[3].kind = "text" /\ job.arg[4].kind = "text"
  /\ Len(job.out.transcript) = 1
  /\ job.out.transcript[1].startTime = parseVTTTimestamp(job.arg[2].s)
  /\ job.out.transcript[1].startTime # parseVTTTimestamp(job.arg[1].s)

\* the events of a json3 file that carry caption text: a segs array whose
\* joined text is not empty after trim()
Speaking(events) ==
  {i \in 1..Len(events) : events[i].segs /\ Trim(events[i].text) # ""}

\* C24: in the json3 parser every event whose joined segs text is not empty
\* after trimming gives one segment with startTime = tStartMs / 1000 (0 when
\* absent) and endTime = (tStartMs + d) / 1000, where d is the dDurationMs of
\* the event whenever it carries one (the value 0 included) and 5000 only
\* when the field is absent; events with empty or newline-only text, or
\* without segs, give no segment.
C24_Json3Times ==
  (Done("json3") /\ ~job.out.threw) =>
    LET events == job.arg.body
        transcript == job.out.transcript
        rank(i) == Cardinality({c \in Speaking(events) : c <= i})
        start(i) == IF events[i].tStartMs = Absent THEN 0 ELSE events[i].tStartMs
        d(i) == IF events[i].dDurationMs = Absent THEN DefaultDurMs
                ELSE events[i].dDurationMs
    IN /\ Len(transcript) = Cardinality(Speaking(events))
       /\ \A i \in Speaking(events) :
            /\ transcript[rank(i)].text = Trim(events[i].text)
            /\ transcript[rank(i)].startTime = start(i)
            /\ transcript[rank(i)].endTime = start(i) + d(i)

\* ------------------------------------------------------------------------
\* Properties of the url validation
\* ------------------------------------------------------------------------
\* C29: every url string that isValidYouTubeUrl accepts yields a non-null
\* identifier from extractVideoId, so the handlers never answer 400 'Could
\* not extract video ID from URL' to a request whose url is a string.
C29_ValidUrlHasId ==
  (Done("validation") /\ job.arg.type = "string") =>
    /\ job.out.valid => (job.out.videoId.kind = "id" /\ job.out.videoId.val # <<>>)
    /\ job.out.answer # "Could not extract video ID from URL"

\* an accepted url of the form youtube.com/v/ID followed by more text
C29_Witness ==
  /\ Done("validation")
  /\ job.arg.type = "string"
  /\ HasAt(job.arg.chars, 1, L_youtube \o L_v)
  /\ job.out.valid
  /\ job.out.answer = "accepted"
  /\ job.out.videoId = IdOf(<<"a","\"",";">>)

\* ------------------------------------------------------------------------
\* The audio specification: one request runs through POST /extract-audio
\* ------------------------------------------------------------------------
NextAudio ==
  \/ ExtractAudio(1, Urls)
  \/ AudioDownloadExit(1, AudioErrors)
  \/ AudioSleepDone(1)
  \/ AudioStreamDone(1)
  \/ Tick

SpecAudio == Init /\ [][NextAudio]_vars

\* every attempt of downloadAudio settles (yt-dlp exits or fails to spawn)
\* and every timer of a sleep fires
SpecAudioLive ==
  /\ SpecAudio
  /\ WF_vars(AudioDownloadExit(1, AudioErrors))
  /\ WF_vars(AudioSleepDone(1))

\* ------------------------------------------------------------------------
\* Properties of POST /extract-audio
\* ------------------------------------------------------------------------
\* the download attempts request r has started
Attempts(r) == Len(IssuedOf(r, {"download"}))

\* downloadAudioWithRetry is running for request r
Retrying(r) == rq[r].pc \in {"au_download", "au_sleep"}

\* downloadAudioWithRetry has returned for request r
Succeeded(r) == Attempts(r) > 0 /\ ~Retrying(r) /\ rq[r].rejected = "none"

\* the attempts run one after another, there are at most maxRetries of
\* them, and the call rejects exactly when maxRetries attempts have failed,
\* with the error of the last one
AttemptsInTurn ==
  \A r \in DOMAIN rq :
    /\ Attempts(r) <= MaxRetries
    /\ rq[r].endpoint = "audio" => rq[r].procs <= 1
    /\ Attempts(r) = Len(rq[r].errors)
                     + (IF rq[r].pc = "au_download" THEN 1 ELSE 0)
                     + (IF Succeeded(r) THEN 1 ELSE 0)
    /\ rq[r].rejected # "none" <=> Len(rq[r].errors) = MaxRetries
    /\ rq[r].rejected # "none" => rq[r].rejected = rq[r].errors[MaxRetries]

\* C25: downloadAudioWithRetry runs its download attempts strictly one after
\* another, makes at most maxRetries attempts, makes no further attempt after
\* one has succeeded, and rejects with the error of the last attempt when all
\* maxRetries attempts have failed; when every attempt settles, the call
\* settles.
C25_RetryBounded ==
  /\ []AttemptsInTurn
  /\ [][\A r \in 1..NReq : Succeeded(r) => rq[r].issued' = rq[r].issued]_vars
  /\ \A r \in 1..NReq : Retrying(r) ~> ~Retrying(r)

\* all attempts have failed, the first and the last with different errors
C25_Witness ==
  \E r \in DOMAIN rq :
    /\ rq[r].rejected = ErrRateLimited
    /\ Attempts(r) = MaxRetries
    /\ rq[r].errors[1] = ErrBlocked

\* what stderr signals
RateLimitSignal(e) == e.has429 \/ e.tooMany
BotSignal(e) == e.signIn \/ e.bot

\* C26: when yt-dlp exits non-zero, downloadAudio rejects with one error
\* category determined by stderr: stderr that signals rate limiting ('429' or
\* 'Too Many Requests') always gives the rate-limited error, stderr that
\* signals bot detection the download-blocked error, stderr with 'Video
\* unavailable' the video-unavailable error, anything else the unknown or raw
\* error, also when the signalling text is on a line that begins with ERROR:.
C26_ErrorCategory ==
  (Done("downloadAudio") /\ job.arg.code # 0) =>
    LET e == job.arg.stderrData
    IN /\ ~job.out.resolved
       /\ RateLimitSignal(e) => job.out.error = ErrRateLimited
       /\ (~RateLimitSignal(e) /\ BotSignal(e)) => job.out.error = ErrBlocked
       /\ (~RateLimitSignal(e) /\ ~BotSignal(e) /\ e.unavailable) =>
            job.out.error = ErrUnavailable
       /\ (~RateLimitSignal(e) /\ ~BotSignal(e) /\ ~e.unavailable) =>
            job.out.error \in {ErrRaw, ErrExitCode}

\* the requests to POST /extract-audio
AudioReqs == {r \in DOMAIN rq : rq[r].endpoint = "audio"}

\* C28: every POST /extract-audio request sends exactly one response on every
\* path: once the mp3 stream has started or finished the handler does not
\* try to send a JSON error (the res.json of the catch throws then and the
\* exception leaves the handler), and no request is left without a response.
C28_ExactlyOneResponse ==
  \A r \in AudioReqs :
    /\ rq[r].sent <= 1
    /\ ~rq[r].escaped
    /\ Finished(r) => rq[r].sent = 1

\* ------------------------------------------------------------------------
\* The transcription specification: one request runs through
\* POST /transcribe-audio
\* ------------------------------------------------------------------------
NextTranscribe ==
  \/ TranscribeAudio(1, {"unset", "ja", "en"})
  \/ TranscribeGetReply(1)
  \/ TranscribeWriterDone(1)
  \/ TranscribeWhisperReply(1, WhisperDatas(MaxElems))
  \/ Tick

SpecTranscribe == Init /\ [][NextTranscribe]_vars

\* ------------------------------------------------------------------------
\* Properties of POST /transcribe-audio
\* ------------------------------------------------------------------------
\* the requests to POST /transcribe-audio
TranscribeReqs == {r \in DOMAIN rq : rq[r].endpoint = "transcribe"}

\* the handler has made no network request and created no file
NothingDone(r) ==
  /\ rq[r].issued = <<>>
  /\ rq[r].outputPath = Absent
  /\ FilesOf(r) = {}

\* the request was answered with the configuration error
ConfigurationError(r) ==
  /\ Finished(r)
  /\ rq[r].response.status = 500
  /\ rq[r].response.error = "OpenAI API key not configured"

\* the POST to the transcription API is issued after the GET of the audio,
\* and while it is under way the temporary file is completely written
WrittenBeforePost(r) ==
  /\ rq[r].keySet
  /\ FirstIssued(r, {"audio-get"}) # 0
  /\ FirstIssued(r, {"audio-get"}) < FirstIssued(r, {"whisper-post"})
  /\ rq[r].pc = "tr_whisper" =>
       /\ Exists(files, TempFilePath(rq[r]))
       /\ files[TempFilePath(rq[r])].content = Mp3Content

\* C27 as stated: when OPENAI_API_KEY is not configured the handler responds
\* with a configuration error before any network request is made and before
\* any temporary file is created; otherwise the remote audio is completely
\* written to the temporary file before the POST to the transcription API is
\* issued.
C27_Original ==
  \A r \in TranscribeReqs :
    /\ ~rq[r].keySet => (ConfigurationError(r) /\ NothingDone(r))
    /\ FirstIssued(r, {"whisper-post"}) # 0 => WrittenBeforePost(r)

\* C27: a request without audioUrl is answered 400 before the credential is
\* looked at; a request with audioUrl, when OPENAI_API_KEY is not configured,
\* is answered with the configuration error before any network request is
\* made and before any temporary file is created; otherwise the remote audio
\* is completely written to the temporary file before the POST to the
\* transcription API is issued.
C27_CredentialBeforeWork ==
  \A r \in TranscribeReqs :
    /\ ~rq[r].keySet =>
         /\ NothingDone(r)
         /\ \/ ConfigurationError(r)
            \/ /\ Finished(r)
               /\ rq[r].response.status = 400
               /\ rq[r].response.error = "Audio URL is required"
    /\ rq[r].response.error = "Audio URL is required" => NothingDone(r)
    /\ FirstIssued(r, {"whisper-post"}) # 0 => WrittenBeforePost(r)

\* the POST is under way on a completely written temporary file
C27_Witness ==
  \E r \in TranscribeReqs :
    /\ rq[r].pc = "tr_whisper"
    /\ rq[r].issued = <<"audio-get", "whisper-post">>
    /\ files[TempFilePath(rq[r])].content = Mp3Content

\* C30: POST /transcribe-audio answers 401 'Invalid OpenAI API key' only when
\* the transcription API rejected the credential and 429 'OpenAI API rate
\* limit exceeded' only when the transcription API rate-limited the call: a
\* 401 or 429 of the server that hosts audioUrl, met during the download of
\* the audio, produces neither response.
C30_ApiErrorsFromApiOnly ==
  \A r \in TranscribeReqs :
    ( \/ rq[r].response.status \in {401, 429}
      \/ rq[r].response.error \in {"Invalid OpenAI API key",
                                    "OpenAI API rate limit exceeded"} )
    => rq[r].failedAt = "whisper"
====
